---- MODULE Spec2Model ----
(***************************************************************************)
(* The livesheet updater: the polling cycle of src/src/index.js, the       *)
(* per-row check of src/src/services/streamChecker.js and the batch commit *)
(* of src/src/services/batchUpdater.js, run against a sheet that another   *)
(* process (or a user) may edit between this process's reads and writes.   *)
(*                                                                         *)
(* Time is in milliseconds, as Date.now() gives it.  A timestamp cell of   *)
(* the sheet holds the ISO string of a millisecond time; it is modelled by *)
(* that millisecond time, and an empty cell by Empty.  A call that reads    *)
(* the sheet, and a write by the other process, take CallTime; a fetch and *)
(* a save return within the millisecond they were called in.               *)
(***************************************************************************)
EXTENDS Integers, Sequences, FiniteSets, TLC

\* ---------------------------------------------------------------- bounds
MaxRows == 2        \* rows of the sheet in the initial state
MaxCycles == 1      \* polling cycles started in one behaviour
MaxExternal == 1    \* edits another process makes in one behaviour
CallTime == 1       \* milliseconds a sheet.getRows(), or another's write, takes

\* ------------------------------------------------------ program constants
MINUTE == 60 * 1000
RATE_LIVE == 2 * MINUTE
RATE_OFF == 7 * MINUTE
RECENTLY_LIVE_THRESHOLD == 20 * MINUTE
LOOP_DELAY_MIN == 10 * 1000
LOOP_DELAY_MAX == 20 * 1000
ERROR_RETRY_DELAY == 30 * 1000

\* An empty cell (getField gives '' or undefined: falsy).
Empty == 0 - 1

\* The clock of the initial state: late enough for a row to have been live
\* longer ago than RECENTLY_LIVE_THRESHOLD, and for a streamer to have been
\* checked longer ago than MAX_CHECK_RATE.
StartTime == 100 * MINUTE

\* ------------------------------------------------------------------ URLs
\* The Link cells of the model: a clean TikTok URL, the same URL with
\* trailing white space, a clean Twitch URL, a string that is no stream URL,
\* and the empty cell.
UrlA == "https://www.tiktok.com/@a/live"
UrlADirty == "https://www.tiktok.com/@a/live "
UrlB == "https://www.twitch.tv/b"
UrlBad == "not a stream url"

\* The URLs of the Known Streamers sheet: twelve different valid ones.
WatchUrls ==
    << UrlA, UrlB,
       "https://www.twitch.tv/c", "https://www.twitch.tv/d",
       "https://www.twitch.tv/e", "https://www.twitch.tv/f",
       "https://www.twitch.tv/g", "https://www.twitch.tv/h",
       "https://www.twitch.tv/i", "https://www.twitch.tv/j",
       "https://www.twitch.tv/k", "https://www.twitch.tv/l" >>

ValidUrls == {WatchUrls[i] : i \in DOMAIN WatchUrls}
UrlNone == ""

\* cleanUrl: trim, then strip non-printable and zero-width characters.
cleanUrl(url) == IF url = UrlADirty THEN UrlA ELSE url

\* isValidLiveUrl: non-empty and matching one of URL_PATTERNS.
isValidLiveUrl(url) == url \in ValidUrls

\* ------------------------------------------------------------------ rows
STATUS_LIVE == "Live"
STATUS_OFFLINE == "Offline"

Row(id, url, status, lastChecked, lastLive, addedDate) ==
    [id |-> id, url |-> url, status |-> status, lastChecked |-> lastChecked,
     lastLive |-> lastLive, addedDate |-> addedDate]

\* The rows a sheet may hold when a cycle starts (id 0 is replaced by the
\* row's place): added by hand and never checked; written Live by an earlier
\* cycle and due again; written Offline by an earlier cycle, live long ago,
\* due again, its URL stored with trailing white space; checked before the
\* Added Date column existed, and not due.  Two rows may hold the same URL;
\* the rows of a sheet are of different kinds.
InitialRows ==
    { Row(0, UrlA, "", Empty, Empty, Empty),
      Row(0, UrlB, STATUS_LIVE, StartTime - 3 * MINUTE, StartTime - 3 * MINUTE,
          StartTime - 25 * MINUTE),
      Row(0, UrlADirty, STATUS_OFFLINE, StartTime - 8 * MINUTE,
          StartTime - 21 * MINUTE, StartTime - 25 * MINUTE),
      Row(0, UrlB, STATUS_OFFLINE, StartTime - 3 * MINUTE, Empty, Empty) }

VARIABLES
    now,             \* Date.now()
    sheet,           \* the Livesheet: the sequence of its rows
    extCount,        \* edits made by another process so far
    pc,              \* where main() stands
    cycles,          \* cycles started
    cycleStartTime,  \* main: const cycleStartTime
    rows,            \* main: const rows, the cycle's snapshot
    prioritized,     \* main: the cycle's snapshot, sorted
    inFlight,        \* fetchUrlStatus calls that have not returned yet
    idx,             \* main: place in prioritized of the row being checked
    pendingUpdates,  \* streamChecker: Map url -> {status}, in insertion order
    detectorResult,  \* the rows fetchUrlStatus was called for, with its result
    entryPending,    \* batchUpdateRows: the map as it was on entry
    freshRows,       \* batchUpdateRows: const freshRows
    pos,             \* batchUpdateRows: place in the map of the entry at hand
    updateCount,     \* batchUpdateRows: let updateCount
    skipCount,       \* batchUpdateRows: let skipCount
    commitLog,       \* what the commit logged, one entry per log line, in order
    refetch,         \* how the commit's sheet.getRows() ended
    commitResult,    \* how the last batchUpdateRows call ended
    KNOWN_STREAMERS_ONLY,     \* app: the mode the process was started in
    knownStreamersSheet,      \* app: whether there is such a sheet, and its rows
    knownStreamersLastCheck,  \* knownStreamers: Map url -> time (no key: 0)
    livesheetRows,   \* checkKnownStreamers: const livesheetRows
    knownNow,        \* checkKnownStreamers: const now (and nowIso)
    lastCheckBefore, \* knownStreamersLastCheck as it was when the call began
    sortedStreamers, \* checkKnownStreamers: const sortedStreamers
    ki,              \* checkKnownStreamers: the loop's i, from 1
    checkedCount,    \* checkKnownStreamers: let checkedCount
    promoLog,        \* what the loop logged: one entry per streamer gone through
    lastResult,      \* what fetchUrlStatus gave in the step just taken
    rateCall,        \* a call of getCheckRateForPriority: its argument, its result
    archiver,        \* a call of archiveExpiredStreams: its client, its locals
    client           \* a StreamSourceClient: its fields, and the request under way

vars == <<now, sheet, extCount, pc, cycles, cycleStartTime, rows, prioritized,
          inFlight, idx, pendingUpdates, detectorResult, entryPending, freshRows, pos,
          updateCount, skipCount, commitLog, refetch, commitResult,
          KNOWN_STREAMERS_ONLY, knownStreamersSheet, knownStreamersLastCheck,
          livesheetRows, knownNow, lastCheckBefore, sortedStreamers, ki,
          checkedCount, promoLog, lastResult, rateCall, archiver, client>>

mainVars == <<pc, cycles, cycleStartTime, rows, prioritized, inFlight, idx>>
checkVars == <<pendingUpdates, detectorResult>>
commitVars == <<entryPending, freshRows, pos, updateCount, skipCount,
                commitLog, refetch, commitResult>>
envVars == <<now, sheet, extCount>>
knownVars == <<KNOWN_STREAMERS_ONLY, knownStreamersSheet, knownStreamersLastCheck>>
auxVars == <<rateCall, archiver, client>>
promoteVars == <<livesheetRows, knownNow, lastCheckBefore, sortedStreamers, ki,
                 checkedCount, promoLog, lastResult>>

\* ------------------------------------------------------------ prioritizer
toLowerCase(s) ==
    IF s \in {"Live", "LIVE"} THEN "live"
    ELSE IF s = "Offline" THEN "offline" ELSE s

getPriority_Exclusive(r, t) ==
    IF r.lastChecked = Empty THEN 3
    ELSE IF toLowerCase(r.status) = toLowerCase(STATUS_LIVE) THEN 2
    ELSE IF r.lastLive # Empty /\ t - r.lastLive < RECENTLY_LIVE_THRESHOLD THEN 1
    ELSE 0

\* index.js getPriority: the tier of a row at time t.
getPriority(r, t) ==
    IF r.lastChecked = Empty THEN 3
    ELSE IF toLowerCase(r.status) = toLowerCase(STATUS_LIVE) THEN 2
    ELSE IF r.lastLive # Empty /\ t - r.lastLive <= RECENTLY_LIVE_THRESHOLD THEN 1
    ELSE 0

Prioritize_SheetOrder(list, t) == list

RECURSIVE Reverse(_)
Reverse(q) == IF q = <<>> THEN <<>> ELSE Append(Reverse(Tail(q)), Head(q))

Prioritize_ReversesTies(list, t) ==
    LET Tier(n) == LET Is(r) == getPriority(r, t) = n IN SelectSeq(list, Is)
    IN  Reverse(Tier(3)) \o Reverse(Tier(2)) \o Reverse(Tier(1)) \o Reverse(Tier(0))

\* rows.sort((a, b) => getPriority(b) - getPriority(a)): a stable sort, so the
\* rows of each tier in their sheet order, the highest tier first.
Prioritize(list, t) ==
    LET Tier(n) == LET Is(r) == getPriority(r, t) = n IN SelectSeq(list, Is)
    IN  Tier(3) \o Tier(2) \o Tier(1) \o Tier(0)

\* index.js 53-62: rows.map(...).sort(...): the map makes a new array, which is
\* sorted; rows itself is left as it was.
SortRows(list, t) == [rows |-> list, prioritized |-> Prioritize(list, t)]

\* ---------------------------------------------------------- streamChecker
RateLimited_AtThreshold(row, t) ==
    /\ row.lastChecked # Empty
    /\ LET rateLimit == IF row.status = STATUS_LIVE THEN RATE_LIVE ELSE RATE_OFF
           recentlyLive == /\ row.lastLive # Empty
                           /\ t - row.lastLive <= RECENTLY_LIVE_THRESHOLD
           effectiveRateLimit == IF recentlyLive THEN RATE_LIVE ELSE rateLimit
       IN  t - row.lastChecked <= effectiveRateLimit

\* checkStatus, lines 123-141: the row was checked too recently.
RateLimited(row, t) ==
    /\ row.lastChecked # Empty
    /\ LET rateLimit == IF row.status = STATUS_LIVE THEN RATE_LIVE ELSE RATE_OFF
           recentlyLive == /\ row.lastLive # Empty
                           /\ t - row.lastLive <= RECENTLY_LIVE_THRESHOLD
           effectiveRateLimit == IF recentlyLive THEN RATE_LIVE ELSE rateLimit
       IN  t - row.lastChecked < effectiveRateLimit

\* checkStatus, lines 103-141: the row is left without a fetch.
SkipsCheck(row, t) ==
    \/ row.url = UrlNone
    \/ ~isValidLiveUrl(cleanUrl(row.url))
    \/ RateLimited(row, t)

\* Map.set on a map kept as the sequence of its entries in insertion order:
\* a key already there keeps its place.
MapSet(m, url, status) ==
    IF \E i \in DOMAIN m : m[i].url = url
    THEN [i \in DOMAIN m |->
            IF m[i].url = url THEN [url |-> url, status |-> status] ELSE m[i]]
    ELSE Append(m, [url |-> url, status |-> status])

MapHas(m, url) == \E i \in DOMAIN m : m[i].url = url

\* checkStatus, lines 146-153: a null result stages nothing, another result is
\* staged under the cleaned URL.
Stage_NullAsOffline(m, url, result) ==
    MapSet(m, cleanUrl(url), IF result = "null" THEN STATUS_OFFLINE ELSE result)

Stage_AlwaysLive(m, url, result) ==
    IF result = "null" THEN m ELSE MapSet(m, cleanUrl(url), STATUS_LIVE)

Stage(m, url, result) ==
    IF result = "null" THEN m ELSE MapSet(m, cleanUrl(url), result)

\* ----------------------------------------------------------- batchUpdater
\* rowsByUrl.get(url) of a URL that is no key: undefined.
NoRow == Row(0, UrlNone, "", Empty, Empty, Empty)

\* batchUpdateRows, lines 25-32 and 40: rowsByUrl.get(url), the map being
\* filled from the Link cells as they are; a later row replaces an earlier one.
RowByUrl(list, url) ==
    LET at == {i \in DOMAIN list : list[i].url = url /\ list[i].url # UrlNone}
    IN  IF at = {} THEN NoRow
        ELSE list[CHOOSE i \in at : \A j \in at : j <= i]

\* batchUpdateRows, lines 49-50: the fresh row was checked after the cycle began.
ModifiedSince_AtOrAfter(freshRow, start) ==
    freshRow.lastChecked # Empty /\ freshRow.lastChecked >= start

ModifiedSince(freshRow, start) ==
    freshRow.lastChecked # Empty /\ freshRow.lastChecked > start

\* batchUpdateRows, lines 57-71: the cells to write and their values.
BuildUpdates_AlwaysLastLive(status, freshRow, t) ==
    LET cells == {"status", "lastChecked", "lastLive"}
                 \cup (IF freshRow.addedDate = Empty THEN {"addedDate"} ELSE {})
    IN  [c \in cells |-> IF c = "status" THEN status ELSE t]

BuildUpdates_AlwaysAddedDate(status, freshRow, t) ==
    LET cells == {"status", "lastChecked", "addedDate"}
                 \cup (IF status = STATUS_LIVE THEN {"lastLive"} ELSE {})
    IN  [c \in cells |-> IF c = "status" THEN status ELSE t]

BuildUpdates(status, freshRow, t) ==
    LET cells == {"status", "lastChecked"}
                 \cup (IF status = STATUS_LIVE THEN {"lastLive"} ELSE {})
                 \cup (IF freshRow.addedDate = Empty THEN {"addedDate"} ELSE {})
    IN  [c \in cells |-> IF c = "status" THEN status ELSE t]

\* batchUpdateRows, line 73, row.assign(updates): the named cells take the new
\* values.
Assign(row, updates) ==
    [c \in DOMAIN row |-> IF c \in DOMAIN updates THEN updates[c] ELSE row[c]]

AssignRow(list, id, updates) ==
    [i \in DOMAIN list |->
        IF list[i].id = id THEN Assign(list[i], updates) ELSE list[i]]

\* batchUpdateRows, line 74, row.save(): the row of the sheet takes the cells
\* of the row object that is saved.
SaveRow(list, row) ==
    [i \in DOMAIN list |-> IF list[i].id = row.id THEN row ELSE list[i]]

HasRow(list, id) == \E i \in DOMAIN list : list[i].id = id
RowOf(list, id) == list[CHOOSE i \in DOMAIN list : list[i].id = id]

\* A line of the commit's log: which line, for which pending URL and status,
\* and the fresh row the entry had when the line was written.
LogEntry(kind, url, status, fresh) ==
    [kind |-> kind, url |-> url, status |-> status, fresh |-> fresh]

\* ------------------------------------------------------------------ Init
\* Nothing fetched, nothing staged.
NothingYet ==
    /\ now = StartTime
    /\ extCount = 0
    /\ cycles = 0
    /\ cycleStartTime = 0
    /\ rows = <<>>
    /\ prioritized = <<>>
    /\ inFlight = 0
    /\ idx = 1
    /\ pendingUpdates = <<>>
    /\ detectorResult = <<>>
    /\ entryPending = <<>>
    /\ freshRows = <<>>
    /\ pos = 1
    /\ updateCount = 0
    /\ skipCount = 0
    /\ commitLog = <<>>
    /\ refetch = "none"
    /\ commitResult = "none"
    /\ livesheetRows = <<>>
    /\ knownNow = 0
    /\ lastCheckBefore = <<>>
    /\ sortedStreamers = <<>>
    /\ ki = 1
    /\ checkedCount = 0
    /\ promoLog = <<>>
    /\ lastResult = "none"

\* index.js 40: main is at the head of its loop, before the first cycle.
Started ==
    /\ pc = "cycleStart"
    /\ NothingYet

\* Nothing but main() runs: no other function of the repository is called.
OnlyMain ==
    /\ rateCall = [priority |-> [t |-> "none"], rate |-> Empty]
    /\ archiver = [pc |-> "none"]
    /\ client = [pc |-> "none"]

\* new Map(): a map is kept as the function from its keys to their values.
NewMap == [u \in {} |-> 0]

\* map.get(url) || 0
GetOr0(map, url) == IF url \in DOMAIN map THEN map[url] ELSE 0

\* map.set(url, t)
SetKey(map, url, t) ==
    [u \in DOMAIN map \cup {url} |-> IF u = url THEN t ELSE map[u]]

\* No Known Streamers sheet is configured: normal mode, the map empty.
NoKnownStreamers ==
    /\ KNOWN_STREAMERS_ONLY = FALSE
    /\ knownStreamersSheet = [open |-> FALSE, rows |-> <<>>]
    /\ knownStreamersLastCheck = NewMap

Init ==
    /\ \E f \in [1..MaxRows -> InitialRows] :
          /\ \A i, j \in 1..MaxRows : f[i] = f[j] => i = j
          /\ sheet = [i \in 1..MaxRows |-> [f[i] EXCEPT !.id = i]]
    /\ NoKnownStreamers
    /\ Started
    /\ OnlyMain

\* ------------------------------------------------------------- main loop
\* index.js 40-49: a cycle begins; cycleStartTime is taken, getRows is called.
CycleStart ==
    /\ pc = "cycleStart"
    /\ ~KNOWN_STREAMERS_ONLY
    /\ cycles < MaxCycles
    /\ cycles' = cycles + 1
    /\ cycleStartTime' = now
    /\ pc' = "getRows"
    /\ UNCHANGED <<rows, prioritized, inFlight, idx>>
    /\ UNCHANGED <<checkVars, commitVars, envVars>>
    /\ UNCHANGED <<knownVars, promoteVars, auxVars>>

AfterCheck_BeforeLastRow(i, list) == IF i >= Len(list) THEN "commit" ELSE "check"

\* after the for loop of index.js 69-71: batchUpdateRows is called.
AfterCheck(i, list) == IF i > Len(list) THEN "commit" ELSE "check"

\* index.js 49-62: the snapshot arrives and is sorted.
GetRowsOK ==
    /\ pc = "getRows"
    /\ now' = now + CallTime
    /\ rows' = SortRows(sheet, now').rows
    /\ prioritized' = SortRows(sheet, now').prioritized
    /\ idx' = 1
    /\ pc' = AfterCheck(1, sheet)
    /\ UNCHANGED <<cycles, cycleStartTime, inFlight, sheet, extCount>>
    /\ UNCHANGED <<checkVars, commitVars>>
    /\ UNCHANGED <<knownVars, promoteVars, auxVars>>

\* index.js 49, 88-90: getRows rejects; the loop's catch takes over.
GetRowsFail ==
    /\ pc = "getRows"
    /\ now' = now + CallTime
    /\ pc' = "errorDelay"
    /\ UNCHANGED <<cycles, cycleStartTime, rows, prioritized, inFlight, idx, sheet, extCount>>
    /\ UNCHANGED <<checkVars, commitVars>>
    /\ UNCHANGED <<knownVars, promoteVars, auxVars>>

\* checkStatus 103-141: the row is skipped: no URL, an invalid URL, or checked
\* too recently.
SkipCheck ==
    /\ pc = "check"
    /\ idx <= Len(prioritized)
    /\ SkipsCheck(prioritized[idx], now)
    /\ idx' = idx + 1
    /\ pc' = AfterCheck(idx + 1, prioritized)
    /\ UNCHANGED <<cycles, cycleStartTime, rows, prioritized, inFlight>>
    /\ UNCHANGED <<checkVars, commitVars, envVars>>
    /\ UNCHANGED <<knownVars, promoteVars, auxVars>>

\* checkStatus 103-144: the row is due; fetchUrlStatus is called and awaited.
CallDetector ==
    /\ pc = "check"
    /\ idx <= Len(prioritized)
    /\ ~SkipsCheck(prioritized[idx], now)
    /\ inFlight' = inFlight + 1
    /\ pc' = "fetching"
    /\ UNCHANGED <<cycles, cycleStartTime, rows, prioritized, idx>>
    /\ UNCHANGED <<checkVars, commitVars, envVars>>
    /\ UNCHANGED <<knownVars, promoteVars, auxVars>>

\* checkStatus 144-153: fetchUrlStatus returns Live, Offline or null; a result
\* is staged; main's for loop goes on.
CheckStatus ==
    /\ pc = "fetching"
    /\ inFlight' = inFlight - 1
    /\ \E result \in {STATUS_LIVE, STATUS_OFFLINE, "null"} :
          /\ detectorResult' = Append(detectorResult,
                [id |-> prioritized[idx].id, url |-> cleanUrl(prioritized[idx].url),
                 result |-> result])
          /\ pendingUpdates' = Stage(pendingUpdates, prioritized[idx].url, result)
    /\ now' = now
    /\ idx' = idx + 1
    /\ pc' = AfterCheck(idx + 1, prioritized)
    /\ UNCHANGED <<cycles, cycleStartTime, rows, prioritized, sheet, extCount>>
    /\ UNCHANGED commitVars
    /\ UNCHANGED <<knownVars, promoteVars, auxVars>>

\* ------------------------------------------------------------ batch commit
\* batchUpdateRows 15-18: nothing is pending; the call returns at once.
BatchNoUpdates_Refetches ==
    /\ pc = "commit"
    /\ pendingUpdates = <<>>
    /\ now' = now + CallTime
    /\ freshRows' = sheet
    /\ refetch' = "ok"
    /\ commitLog' = <<LogEntry("noUpdates", UrlNone, "", NoRow)>>
    /\ commitResult' = "returned"
    /\ pc' = "known"
    /\ UNCHANGED <<entryPending, pos, updateCount, skipCount>>
    /\ UNCHANGED <<cycles, cycleStartTime, rows, prioritized, inFlight, idx>>
    /\ UNCHANGED <<checkVars, sheet, extCount>>
    /\ UNCHANGED <<knownVars, promoteVars, auxVars>>

BatchNoUpdates ==
    /\ pc = "commit"
    /\ pendingUpdates = <<>>
    /\ commitLog' = <<LogEntry("noUpdates", UrlNone, "", NoRow)>>
    /\ commitResult' = "returned"
    /\ pc' = "known"
    /\ UNCHANGED <<entryPending, freshRows, pos, updateCount, skipCount, refetch>>
    /\ UNCHANGED <<cycles, cycleStartTime, rows, prioritized, inFlight, idx>>
    /\ UNCHANGED <<checkVars, envVars>>
    /\ UNCHANGED <<knownVars, promoteVars, auxVars>>

\* batchUpdateRows 20-37: updates are pending; sheet.getRows() is awaited and
\* the fresh rows arrive.
RefetchOK ==
    /\ pc = "commit"
    /\ pendingUpdates # <<>>
    /\ now' = now + CallTime
    /\ entryPending' = pendingUpdates
    /\ freshRows' = sheet
    /\ refetch' = "ok"
    /\ pos' = 1
    /\ updateCount' = 0
    /\ skipCount' = 0
    /\ commitResult' = "running"
    /\ pc' = "commitLoop"
    /\ UNCHANGED commitLog
    /\ UNCHANGED <<cycles, cycleStartTime, rows, prioritized, inFlight, idx, sheet, extCount>>
    /\ UNCHANGED checkVars
    /\ UNCHANGED <<knownVars, promoteVars, auxVars>>

\* batchUpdateRows 86-89: the finally clears the map, and the call returns.
ClearAndReturn_KeepsMap ==
    /\ pendingUpdates' = pendingUpdates
    /\ commitResult' = "returned"
    /\ pc' = "known"

ClearAndReturn ==
    /\ pendingUpdates' = <<>>
    /\ commitResult' = "returned"
    /\ pc' = "known"

\* batchUpdateRows 84-89: the catch of the whole batch logs the error; the
\* finally clears the map; the call returns.
OnBatchError_Rethrows ==
    /\ commitLog' = Append(commitLog, LogEntry("batchError", UrlNone, "", NoRow))
    /\ pendingUpdates' = <<>>
    /\ commitResult' = "raised"
    /\ pc' = "errorDelay"

OnBatchError_KeepsMap ==
    /\ commitLog' = Append(commitLog, LogEntry("batchError", UrlNone, "", NoRow))
    /\ ClearAndReturn_KeepsMap

OnBatchError ==
    /\ commitLog' = Append(commitLog, LogEntry("batchError", UrlNone, "", NoRow))
    /\ ClearAndReturn

\* batchUpdateRows 20-24, 84-89: updates are pending; getRows rejects.
RefetchFail ==
    /\ pc = "commit"
    /\ pendingUpdates # <<>>
    /\ now' = now + CallTime
    /\ entryPending' = pendingUpdates
    /\ refetch' = "failed"
    /\ OnBatchError
    /\ UNCHANGED <<freshRows, pos, updateCount, skipCount>>
    /\ UNCHANGED <<cycles, cycleStartTime, rows, prioritized, inFlight, idx, detectorResult>>
    /\ UNCHANGED <<sheet, extCount>>
    /\ UNCHANGED <<knownVars, promoteVars, auxVars>>

\* batchUpdateRows 39, 80-89: the for loop takes the next entry, or, after the
\* last one, the summary is logged, the map is cleared and the call returns.
NextEntry ==
    /\ pos' = pos + 1
    /\ IF pos < Len(pendingUpdates)
       THEN UNCHANGED <<pendingUpdates, commitResult, pc>>
       ELSE ClearAndReturn

\* batchUpdateRows 39-42, 48-50: the entry has a fresh row that was not checked
\* since the cycle began.
Writable_NoDeletedCheck(m, i, list, start) ==
    ~ModifiedSince(RowByUrl(list, m[i].url), start)

Writable(m, i, list, start) ==
    LET freshRow == RowByUrl(list, m[i].url)
    IN  freshRow # NoRow /\ ~ModifiedSince(freshRow, start)

\* batchUpdateRows 39-54: an entry without a fresh row, or whose fresh row was
\* checked after the cycle began, is logged and counted as skipped.
SkipEntry ==
    /\ pc = "commitLoop"
    /\ ~Writable(pendingUpdates, pos, freshRows, cycleStartTime)
    /\ LET url == pendingUpdates[pos].url
           freshRow == RowByUrl(freshRows, url)
           kind == IF freshRow = NoRow THEN "deleted" ELSE "conflict"
       IN  commitLog' = Append(commitLog,
              LogEntry(kind, url, pendingUpdates[pos].status, freshRow))
    /\ skipCount' = skipCount + 1
    /\ NextEntry
    /\ UNCHANGED <<entryPending, freshRows, updateCount, refetch>>
    /\ UNCHANGED <<cycles, cycleStartTime, rows, prioritized, inFlight, idx, detectorResult>>
    /\ UNCHANGED envVars
    /\ UNCHANGED <<knownVars, promoteVars, auxVars>>

\* batchUpdateRows 56-75: the updates are built and assigned to the fresh row,
\* the save succeeds (the sheet's row takes the updates) and is counted.  A row
\* deleted since the re-fetch cannot be saved.
SaveOK ==
    /\ pc = "commitLoop"
    /\ Writable(pendingUpdates, pos, freshRows, cycleStartTime)
    /\ LET url == pendingUpdates[pos].url
           freshRow == RowByUrl(freshRows, url)
           updates == BuildUpdates(pendingUpdates[pos].status, freshRow, now)
       IN  /\ HasRow(sheet, freshRow.id)
           /\ freshRows' = AssignRow(freshRows, freshRow.id, updates)
           /\ sheet' = SaveRow(sheet, Assign(freshRow, updates))
           /\ commitLog' = Append(commitLog,
                 LogEntry("saved", url, pendingUpdates[pos].status, freshRow))
    /\ updateCount' = updateCount + 1
    /\ NextEntry
    /\ UNCHANGED <<entryPending, skipCount, refetch>>
    /\ UNCHANGED <<cycles, cycleStartTime, rows, prioritized, inFlight, idx, detectorResult>>
    /\ UNCHANGED <<now, extCount>>
    /\ UNCHANGED <<knownVars, promoteVars, auxVars>>

\* batchUpdateRows 77-80: the catch of one row's save has logged the error;
\* the for loop goes on.
AfterSaveError_Aborts ==
    /\ pos' = pos + 1
    /\ ClearAndReturn

AfterSaveError == NextEntry

\* batchUpdateRows 56-74, 77-79: the updates are built and assigned, the save
\* rejects; it is logged (and counted neither as updated nor as skipped).
SaveFail ==
    /\ pc = "commitLoop"
    /\ Writable(pendingUpdates, pos, freshRows, cycleStartTime)
    /\ LET url == pendingUpdates[pos].url
           freshRow == RowByUrl(freshRows, url)
           updates == BuildUpdates(pendingUpdates[pos].status, freshRow, now)
       IN  /\ freshRows' = AssignRow(freshRows, freshRow.id, updates)
           /\ commitLog' = Append(commitLog,
                 LogEntry("saveError", url, pendingUpdates[pos].status, freshRow))
    /\ AfterSaveError
    /\ UNCHANGED <<entryPending, updateCount, skipCount, refetch>>
    /\ UNCHANGED <<cycles, cycleStartTime, rows, prioritized, inFlight, idx, detectorResult>>
    /\ UNCHANGED envVars
    /\ UNCHANGED <<knownVars, promoteVars, auxVars>>

\* --------------------------------------------------- the rest of the cycle
\* The locals of a batchUpdateRows call that has returned.
CommitOver ==
    /\ entryPending' = <<>>
    /\ freshRows' = <<>>
    /\ pos' = 1
    /\ updateCount' = 0
    /\ skipCount' = 0
    /\ commitLog' = <<>>
    /\ refetch' = "none"
    /\ commitResult' = "none"

\* index.js 81-86: checkKnownStreamers is called; with no Known Streamers
\* sheet it returns at once, and the sleep begins.
CheckKnownStreamers ==
    /\ pc = "known"
    /\ ~knownStreamersSheet.open
    /\ pc' = "sleep"
    /\ CommitOver
    /\ detectorResult' = <<>>
    /\ UNCHANGED <<cycles, cycleStartTime, rows, prioritized, inFlight, idx, pendingUpdates>>
    /\ UNCHANGED envVars
    /\ UNCHANGED <<knownVars, promoteVars, auxVars>>

\* ------------------------------------------------------- known streamers
PRIORITY_MIN == 0
PRIORITY_MAX == 100
PRIORITY_STEEPNESS_FACTOR == 4
PRIORITY_ALWAYS_CHECK == 100
MAX_KNOWN_STREAMERS_PER_CYCLE == 10
BASE_CHECK_RATE == 15 * MINUTE
MAX_CHECK_RATE == 90 * MINUTE

\* The Priority cells a Known Streamers row may hold.
PriorityCells ==
    {"150", "100", "75", "50", "25", "0", "-5", "abc", "", "50%", "99.5", "1e2"}

\* parseInt(cell) || 0 of a string: the leading integer of the string; NaN
\* (no leading integer) and 0 both give 0.
parseIntOr0(cell) ==
    CASE cell = "150" -> 150
      [] cell = "100" -> 100
      [] cell = "75" -> 75
      [] cell = "50" -> 50
      [] cell = "25" -> 25
      [] cell = "-5" -> 0 - 5
      [] cell = "50%" -> 50
      [] cell = "99.5" -> 99
      [] cell = "1e2" -> 1
      [] OTHER -> 0

Max(a, b) == IF a >= b THEN a ELSE b
Min(a, b) == IF a <= b THEN a ELSE b

\* Math.round(n / d) for n >= 0, d > 0.
RoundDiv(n, d) == (2 * n + d) \div (2 * d)

\* (MAX_CHECK_RATE - BASE_CHECK_RATE) * Math.pow(2, -k / 25) for k = 0..24, in
\* sixteenths of a millisecond, rounded down: the part of additionalTime that
\* the fraction of the exponent gives.
AdditionalTime16 ==
    << 72000000, 70031156, 68116150, 66253510, 64441805, 62679640, 60965662,
       59298553, 57677031, 56099849, 54565796, 53073691, 51622388, 50210771,
       48837755, 47502284, 46203332, 44939899, 43711015, 42515735, 41353140,
       40222336, 39122455, 38052649, 37012097 >>

\* Math.round(BASE_CHECK_RATE + additionalTime), part_008 28-30: the exponent
\* PRIORITY_STEEPNESS_FACTOR * clamped / PRIORITY_MAX is split into its whole
\* part and its twenty-fifths.
RateBelowAlways(clampedPriority) ==
    LET hundredths == (PRIORITY_STEEPNESS_FACTOR * clampedPriority * 100) \div PRIORITY_MAX
        whole == hundredths \div 100
        k == (hundredths % 100) \div 4
    IN  BASE_CHECK_RATE + RoundDiv(AdditionalTime16[k + 1], 16 * 2 ^ whole)

getCheckRateForPriority_Halved(priority) ==
    LET clampedPriority == Max(PRIORITY_MIN, Min(PRIORITY_MAX, priority))
    IN  IF clampedPriority >= PRIORITY_ALWAYS_CHECK THEN 0
        ELSE RateBelowAlways(clampedPriority) \div 2

getCheckRateForPriority_AlwaysFrom99(priority) ==
    LET clampedPriority == Max(PRIORITY_MIN, Min(PRIORITY_MAX, priority))
    IN  IF clampedPriority >= PRIORITY_ALWAYS_CHECK - 1 THEN 0
        ELSE RateBelowAlways(clampedPriority)

\* getCheckRateForPriority, part_008 21-31, of the integer p of line 18.
getCheckRateForPriority(priority) ==
    LET clampedPriority == Max(PRIORITY_MIN, Min(PRIORITY_MAX, priority))
    IN  IF clampedPriority >= PRIORITY_ALWAYS_CHECK THEN 0
        ELSE RateBelowAlways(clampedPriority)

\* The values getCheckRateForPriority is called with.
Num(n) == [t |-> "number", n |-> n]
Str(cell) == [t |-> "string", s |-> cell]
Null == [t |-> "null"]
Undefined == [t |-> "undefined"]

ParsePriority_AbsoluteValue(value) ==
    CASE value.t = "number" -> IF value.n < 0 THEN 0 - value.n ELSE value.n
      [] value.t = "string" -> parseIntOr0(value.s)
      [] OTHER -> 0

\* const p = parseInt(priority) || 0, part_008 18: an integer is itself, a
\* string gives its leading integer, anything else gives NaN, hence 0.
ParsePriority(value) ==
    CASE value.t = "number" -> value.n
      [] value.t = "string" -> parseIntOr0(value.s)
      [] OTHER -> 0

\* A row of the Known Streamers sheet: its URL and Priority cells.
Streamer(url, cell) == [url |-> url, priority |-> cell]

\* checkKnownStreamers 63-66: each row with its parsed priority and its place,
\* sorted by descending priority; the sort is stable.
RECURSIVE SortDescending(_)
SortDescending(list) ==
    IF list = <<>> THEN <<>>
    ELSE LET top == CHOOSE p \in {list[i].priority : i \in DOMAIN list} :
                       \A i \in DOMAIN list : list[i].priority <= p
             IsTop(e) == e.priority = top
             IsLower(e) == e.priority # top
         IN  SelectSeq(list, IsTop) \o SortDescending(SelectSeq(list, IsLower))

sortStreamers_SheetOrder(knownStreamers) ==
    [i \in DOMAIN knownStreamers |->
        [url |-> knownStreamers[i].url,
         priority |-> parseIntOr0(knownStreamers[i].priority),
         originalIdx |-> i]]

sortStreamers(knownStreamers) ==
    SortDescending([i \in DOMAIN knownStreamers |->
        [url |-> knownStreamers[i].url,
         priority |-> parseIntOr0(knownStreamers[i].priority),
         originalIdx |-> i]])

isUrlInLivesheet_Raw(url, list) ==
    \E i \in DOMAIN list : list[i].url # UrlNone /\ list[i].url = url

\* isUrlInLivesheet, lines 30-36.
isUrlInLivesheet(url, list) ==
    \E i \in DOMAIN list :
        list[i].url # UrlNone /\ cleanUrl(list[i].url) = cleanUrl(url)

Verdict_CapExceeded(e, lastCheckMap, checked, list, t) ==
    IF e.url = UrlNone THEN "noUrl"
    ELSE IF ~isValidLiveUrl(cleanUrl(e.url)) THEN "invalid"
    ELSE IF t - GetOr0(lastCheckMap, cleanUrl(e.url)) < getCheckRateForPriority(e.priority)
         THEN "rateLimited"
    ELSE IF checked > MAX_KNOWN_STREAMERS_PER_CYCLE THEN "capped"
    ELSE IF isUrlInLivesheet(cleanUrl(e.url), list) THEN "inLivesheet"
    ELSE "check"

\* checkKnownStreamers 92-133: what the loop does with a streamer, the tests
\* in the order of the code.
Verdict(e, lastCheckMap, checked, list, t) ==
    IF e.url = UrlNone THEN "noUrl"
    ELSE IF ~isValidLiveUrl(cleanUrl(e.url)) THEN "invalid"
    ELSE IF t - GetOr0(lastCheckMap, cleanUrl(e.url)) < getCheckRateForPriority(e.priority)
         THEN "rateLimited"
    ELSE IF checked >= MAX_KNOWN_STREAMERS_PER_CYCLE THEN "capped"
    ELSE IF isUrlInLivesheet(cleanUrl(e.url), list) THEN "inLivesheet"
    ELSE "check"

\* The verdict on the streamer at hand.
VerdictNow ==
    Verdict(sortedStreamers[ki], knownStreamersLastCheck, checkedCount,
            livesheetRows, knownNow)

\* checkKnownStreamers returns: its locals are gone.
PromoteOver ==
    /\ livesheetRows' = <<>>
    /\ knownNow' = 0
    /\ lastCheckBefore' = <<>>
    /\ sortedStreamers' = <<>>
    /\ ki' = 1
    /\ checkedCount' = 0
    /\ promoLog' = <<>>
    /\ lastResult' = "none"

KnownOnlyCycle_FetchesSnapshot ==
    /\ pc = "cycleStart"
    /\ KNOWN_STREAMERS_ONLY
    /\ cycles < MaxCycles
    /\ cycles' = cycles + 1
    /\ cycleStartTime' = now
    /\ pc' = "getRows"
    /\ UNCHANGED <<rows, prioritized, inFlight, idx>>
    /\ UNCHANGED <<checkVars, commitVars, envVars, knownVars, promoteVars, auxVars>>

\* index.js 75-81: a cycle of the known-streamers-only mode: nothing is read
\* from the Livesheet, checkKnownStreamers is called.
KnownOnlyCycle ==
    /\ pc = "cycleStart"
    /\ KNOWN_STREAMERS_ONLY
    /\ cycles < MaxCycles
    /\ cycles' = cycles + 1
    /\ cycleStartTime' = now
    /\ pc' = "known"
    /\ UNCHANGED <<rows, prioritized, inFlight, idx>>
    /\ UNCHANGED <<checkVars, commitVars, envVars, knownVars, promoteVars, auxVars>>

\* checkKnownStreamers 45, 52, 185-187: one of the two getRows rejects; the
\* catch logs and the call returns.
KnownRowsFail ==
    /\ pc = "known"
    /\ knownStreamersSheet.open
    /\ now' = now + CallTime
    /\ pc' = "sleep"
    /\ CommitOver
    /\ detectorResult' = <<>>
    /\ UNCHANGED <<cycles, cycleStartTime, rows, prioritized, inFlight, idx, pendingUpdates>>
    /\ UNCHANGED <<sheet, extCount, knownVars, promoteVars, auxVars>>

\* checkKnownStreamers 45-50: the Known Streamers sheet has no rows.
KnownRowsEmpty ==
    /\ pc = "known"
    /\ knownStreamersSheet.open
    /\ knownStreamersSheet.rows = <<>>
    /\ now' = now + CallTime
    /\ pc' = "sleep"
    /\ CommitOver
    /\ detectorResult' = <<>>
    /\ UNCHANGED <<cycles, cycleStartTime, rows, prioritized, inFlight, idx, pendingUpdates>>
    /\ UNCHANGED <<sheet, extCount, knownVars, promoteVars, auxVars>>

\* checkKnownStreamers 45-66: both sheets are read, now is taken, the
\* streamers are sorted; the loop begins.
KnownRowsOK ==
    /\ pc = "known"
    /\ knownStreamersSheet.open
    /\ knownStreamersSheet.rows # <<>>
    /\ now' = now + 2 * CallTime
    /\ livesheetRows' = sheet
    /\ knownNow' = now'
    /\ lastCheckBefore' = knownStreamersLastCheck
    /\ sortedStreamers' = sortStreamers(knownStreamersSheet.rows)
    /\ ki' = 1
    /\ checkedCount' = 0
    /\ promoLog' = <<>>
    /\ lastResult' = "none"
    /\ pc' = "knownLoop"
    /\ CommitOver
    /\ detectorResult' = <<>>
    /\ UNCHANGED <<cycles, cycleStartTime, rows, prioritized, inFlight, idx, pendingUpdates>>
    /\ UNCHANGED <<sheet, extCount, knownVars, auxVars>>

\* What every step of the loop leaves alone.
InKnownLoop ==
    /\ pc = "knownLoop"
    /\ UNCHANGED <<cycles, cycleStartTime, rows, prioritized, inFlight, idx>>
    /\ UNCHANGED <<checkVars, commitVars, now, extCount>>
    /\ UNCHANGED <<KNOWN_STREAMERS_ONLY, knownStreamersSheet>>
    /\ UNCHANGED <<livesheetRows, knownNow, lastCheckBefore, sortedStreamers>>
    /\ UNCHANGED auxVars

\* The loop is done with the streamer at hand, logging kind; after the last
\* streamer the summary is logged and the call returns (lines 171-183).
NextStreamer(kind) ==
    /\ promoLog' = Append(promoLog, [at |-> ki, kind |-> kind])
    /\ ki' = ki + 1
    /\ pc' = IF ki < Len(sortedStreamers) THEN "knownLoop" ELSE "sleep"

\* checkKnownStreamers 92-124: no URL, an invalid URL, checked too recently
\* for its priority, or the cycle's checks used up: continue.
KnownSkip ==
    /\ InKnownLoop
    /\ VerdictNow \in {"noUrl", "invalid", "rateLimited", "capped"}
    /\ NextStreamer(VerdictNow)
    /\ lastResult' = "none"
    /\ UNCHANGED <<sheet, knownStreamersLastCheck, checkedCount>>

\* knownStreamersLastCheck.set(url, now), line 126.
SetLastCheck ==
    knownStreamersLastCheck' =
        SetKey(knownStreamersLastCheck, cleanUrl(sortedStreamers[ki].url), knownNow)

\* checkKnownStreamers 126-133: the URL is in the Livesheet snapshot: the
\* check time is recorded, nothing is fetched.
KnownAlreadyIn ==
    /\ InKnownLoop
    /\ VerdictNow = "inLivesheet"
    /\ SetLastCheck
    /\ NextStreamer("inLivesheet")
    /\ lastResult' = "none"
    /\ UNCHANGED <<sheet, checkedCount>>

\* The row sheet.addRow appends, lines 150-160.
NewRow(list, url, t) ==
    LET ids == {list[i].id : i \in DOMAIN list}
        last == IF ids = {} THEN 0 ELSE CHOOSE n \in ids : \A k \in ids : k <= n
    IN  Row(last + 1, url, STATUS_LIVE, t, t, t)

\* fetchUrlStatus answers Live at most MaxLive times in one call.
MaxLive == 2

KnownCheck_AddsWhateverTheResult ==
    /\ InKnownLoop
    /\ VerdictNow = "check"
    /\ SetLastCheck
    /\ checkedCount' = checkedCount + 1
    /\ \E result \in {STATUS_LIVE, STATUS_OFFLINE, "null"} :
          /\ Len(sheet) - Len(livesheetRows) < MaxLive
          /\ lastResult' = result
          /\ sheet' = Append(sheet, NewRow(sheet, cleanUrl(sortedStreamers[ki].url), knownNow))
    /\ NextStreamer("checked")

\* checkKnownStreamers 126-168: the streamer is checked: the check time is
\* recorded, the count goes up, fetchUrlStatus answers; a live streamer is
\* added to the Livesheet.
KnownCheck ==
    /\ InKnownLoop
    /\ VerdictNow = "check"
    /\ SetLastCheck
    /\ checkedCount' = checkedCount + 1
    /\ \E result \in {STATUS_LIVE, STATUS_OFFLINE, "null"} :
          /\ result = STATUS_LIVE => Len(sheet) - Len(livesheetRows) < MaxLive
          /\ lastResult' = result
          /\ sheet' = IF result = STATUS_LIVE
                      THEN Append(sheet, NewRow(sheet, cleanUrl(sortedStreamers[ki].url), knownNow))
                      ELSE sheet
    /\ NextStreamer("checked")

\* checkKnownStreamers 146-160, 185-187: the streamer is live and sheet.addRow
\* rejects: the catch around the loop logs, and the call returns.
KnownAddRowFail ==
    /\ InKnownLoop
    /\ VerdictNow = "check"
    /\ SetLastCheck
    /\ checkedCount' = checkedCount + 1
    /\ lastResult' = STATUS_LIVE
    /\ promoLog' = Append(promoLog, [at |-> ki, kind |-> "addRowFailed"])
    /\ pc' = "sleep"
    /\ UNCHANGED <<sheet, ki>>

\* The end of one pass of the while loop: its locals are gone.
EndOfCycle ==
    /\ cycleStartTime' = 0
    /\ rows' = <<>>
    /\ prioritized' = <<>>
    /\ idx' = 1

\* index.js 83-86: the jittered sleep, with Math.random() giving 0.
Sleep ==
    /\ pc = "sleep"
    /\ now' = now + LOOP_DELAY_MIN
    /\ pc' = "cycleStart"
    /\ EndOfCycle
    /\ PromoteOver
    /\ UNCHANGED <<cycles, inFlight, sheet, extCount>>
    /\ UNCHANGED <<checkVars, commitVars>>
    /\ UNCHANGED <<knownVars, auxVars>>

ErrorDelay_Jittered ==
    /\ pc = "errorDelay"
    /\ now' = now + LOOP_DELAY_MIN
    /\ pc' = "cycleStart"
    /\ EndOfCycle
    /\ UNCHANGED <<cycles, inFlight, sheet, extCount>>
    /\ UNCHANGED <<checkVars, commitVars>>
    /\ UNCHANGED <<knownVars, promoteVars, auxVars>>

\* index.js 88-90: the catch of the loop: log, wait ERROR_RETRY_DELAY.
ErrorDelay ==
    /\ pc = "errorDelay"
    /\ now' = now + ERROR_RETRY_DELAY
    /\ pc' = "cycleStart"
    /\ EndOfCycle
    /\ UNCHANGED <<cycles, inFlight, sheet, extCount>>
    /\ UNCHANGED <<checkVars, commitVars>>
    /\ UNCHANGED <<knownVars, promoteVars, auxVars>>

\* ----------------------------------------------------------- environment
\* Where an edit made by another process meets the commit: before the fresh
\* rows are read, and while the save of the entry at hand is awaited, before
\* it reaches the sheet.
AwaitingSheet ==
    \/ pc = "commit" /\ pendingUpdates # <<>>
    \/ /\ pc = "commitLoop"
       /\ Writable(pendingUpdates, pos, freshRows, cycleStartTime)

\* What another instance of the program finds a stream to be.
ExternalStatuses == {STATUS_LIVE}

\* Another instance of the program commits a status to a row: the write of
\* batchUpdateRows 57-74, made by that process, during the commit or while
\* the cycle's snapshot is awaited.
ExternalWrite ==
    /\ AwaitingSheet \/ pc = "getRows"
    /\ extCount < MaxExternal
    /\ extCount' = extCount + 1
    /\ \E i \in DOMAIN sheet, status \in ExternalStatuses :
          sheet' = SaveRow(sheet,
                           Assign(sheet[i], BuildUpdates(status, sheet[i], now)))
    /\ now' = now + CallTime
    /\ UNCHANGED <<mainVars, checkVars, commitVars>>
    /\ UNCHANGED <<knownVars, promoteVars, auxVars>>

\* A user deletes a row of the sheet during the commit.
ExternalDelete ==
    /\ AwaitingSheet
    /\ extCount < MaxExternal
    /\ extCount' = extCount + 1
    /\ \E i \in DOMAIN sheet :
          sheet' = [j \in 1..(Len(sheet) - 1) |->
                       IF j < i THEN sheet[j] ELSE sheet[j + 1]]
    /\ UNCHANGED now
    /\ UNCHANGED <<mainVars, checkVars, commitVars>>
    /\ UNCHANGED <<knownVars, promoteVars, auxVars>>

Next ==
    \/ CycleStart
    \/ GetRowsOK
    \/ GetRowsFail
    \/ SkipCheck
    \/ CallDetector
    \/ CheckStatus
    \/ BatchNoUpdates
    \/ RefetchOK
    \/ RefetchFail
    \/ SkipEntry
    \/ SaveOK
    \/ SaveFail
    \/ CheckKnownStreamers
    \/ Sleep
    \/ ErrorDelay
    \/ ExternalWrite
    \/ ExternalDelete

Spec == Init /\ [][Next]_vars

\* ================================================================ properties
\* The last line of a log.
Last(log) == log[Len(log)]

\* A step of batchUpdateRows that is done with the pending entry at pos.
EntryStep == pc = "commitLoop" /\ pos' = pos + 1

\* A step in which a save of batchUpdateRows reached the sheet.
SaveStep == pc = "commitLoop" /\ updateCount' = updateCount + 1

\* A step taken by this process, not by another one.
OwnStep == extCount' = extCount

\* The rows of a snapshot whose Link cell is the key url.
RowsWithLink(list, url) == {i \in DOMAIN list : list[i].url = url}

\* A commit call that read the fresh rows has returned.
CommitReturned == commitResult = "returned" /\ refetch = "ok"

\* C1: whenever a call of batchUpdateRows has returned, by whichever path
\* (nothing pending, every row saved, rows skipped, a save failing, the
\* re-fetch failing), the pending-update map is empty.
C1_PendingEmptyAfterCommit ==
    commitResult = "returned" => pendingUpdates = <<>>

\* A commit of two entries in which a save failed has returned.
C1_Witness ==
    /\ commitResult = "returned"
    /\ Len(entryPending) = 2
    /\ \E i \in DOMAIN commitLog : commitLog[i].kind = "saveError"

\* C2: an entry whose fresh row has a Last Checked later than cycleStartTime is
\* not written (the sheet and the fresh rows stay as they are) and is counted
\* as skipped; an entry whose fresh row has no Last Checked, or one at or
\* before cycleStartTime, is not skipped: its save is attempted.
C2_ConflictSkipped ==
    [][EntryStep =>
        LET fresh == RowByUrl(freshRows, pendingUpdates[pos].url)
        IN  /\ (fresh # NoRow /\ fresh.lastChecked # Empty
                    /\ fresh.lastChecked > cycleStartTime)
                 => /\ sheet' = sheet
                    /\ freshRows' = freshRows
                    /\ skipCount' = skipCount + 1
                    /\ updateCount' = updateCount
                    /\ Last(commitLog').kind = "conflict"
            /\ (fresh # NoRow /\ (fresh.lastChecked = Empty
                                     \/ fresh.lastChecked <= cycleStartTime))
                 => /\ skipCount' = skipCount
                    /\ Last(commitLog').kind \in {"saved", "saveError"}
                    /\ freshRows' # freshRows]_vars

\* An entry was skipped because another process had written its row.
C2_Witness ==
    \E i \in DOMAIN commitLog :
        /\ commitLog[i].kind = "conflict"
        /\ commitLog[i].fresh.lastChecked > cycleStartTime

\* C3: a failing save does not end the commit: when the call returns, every
\* entry the map held on entry has its log line, in the map's order, and every
\* entry that was eligible (a fresh row, not checked since the cycle began) had
\* its save attempted.
C3_SaveFailureDoesNotAbort ==
    CommitReturned =>
        /\ Len(commitLog) = Len(entryPending)
        /\ \A j \in DOMAIN commitLog :
              /\ commitLog[j].url = entryPending[j].url
              /\ (commitLog[j].fresh # NoRow
                    /\ commitLog[j].fresh.lastChecked <= cycleStartTime)
                 => commitLog[j].kind \in {"saved", "saveError"}

\* The save of one entry failed and the next entry was saved.
C3_Witness ==
    /\ CommitReturned
    /\ \E i, j \in DOMAIN commitLog :
          /\ i < j
          /\ commitLog[i].kind = "saveError"
          /\ commitLog[j].kind = "saved"

\* C4, as the specification states it: when a commit whose re-fetch succeeded
\* returns, updated + skipped is the number of entries the map held on entry.
C4_CountsCoverEveryEntry ==
    CommitReturned => updateCount + skipCount = Len(entryPending)

\* C5: an entry whose URL is the Link of no fresh row is counted as skipped
\* and logged as deleted, nothing is written, nothing is raised, and the loop
\* goes on to the entries after it.
C5_DeletedSkipped ==
    [][(EntryStep /\ RowsWithLink(freshRows, pendingUpdates[pos].url) = {}) =>
          /\ sheet' = sheet
          /\ freshRows' = freshRows
          /\ skipCount' = skipCount + 1
          /\ updateCount' = updateCount
          /\ Last(commitLog').kind = "deleted"
          /\ commitResult' # "raised"
          /\ pc' # "errorDelay"
          /\ pos < Len(pendingUpdates) =>
                pc' = "commitLoop" /\ pendingUpdates' = pendingUpdates]_vars

\* An entry whose row had been deleted was skipped and the next one was saved.
C5_Witness ==
    \E i, j \in DOMAIN commitLog :
        /\ i < j
        /\ commitLog[i].kind = "deleted"
        /\ commitLog[j].kind = "saved"

\* C6, amended: when the re-fetch fails, nothing is written, the map is
\* cleared, the failure is logged and the call returns to its caller, which
\* goes on with the cycle; no step of the commit raises anything.
C6_RefetchFailureLogged ==
    [][/\ (refetch = "none" /\ refetch' = "failed") =>
              /\ sheet' = sheet
              /\ pendingUpdates' = <<>>
              /\ Last(commitLog').kind = "batchError"
              /\ commitResult' = "returned"
              /\ pc' = "known"
       /\ commitResult' # "raised"]_vars

\* The re-fetch of a commit with pending updates failed.
C6_Witness ==
    /\ refetch = "failed"
    /\ entryPending # <<>>
    /\ commitResult = "returned"

\* C6, as the specification states it: when the re-fetch fails, nothing is
\* written, the map is cleared and the failure is raised to the caller.
C6_RefetchFailureRaised ==
    [][(refetch = "none" /\ refetch' = "failed") =>
          /\ sheet' = sheet
          /\ pendingUpdates' = <<>>
          /\ commitResult' = "raised"
          /\ pc' = "errorDelay"]_vars

\* C7: called with an empty map, batchUpdateRows reads nothing (no getRows, no
\* time spent awaiting one), writes nothing, and leaves sheet and map as they
\* were.
C7_EmptyCommitIsNoOp ==
    [][(pc = "commit" /\ pendingUpdates = <<>> /\ pc' # "commit") =>
          /\ sheet' = sheet
          /\ pendingUpdates' = <<>>
          /\ freshRows' = freshRows
          /\ refetch' = "none"
          /\ now' = now
          /\ updateCount' = 0
          /\ commitResult' = "returned"]_vars

\* A commit with nothing pending has returned, after a check that gave null.
C7_Witness ==
    /\ commitResult = "returned"
    /\ commitLog = <<LogEntry("noUpdates", UrlNone, "", NoRow)>>
    /\ detectorResult # <<>>

GaveNull(results) ==
    {results[k].id : k \in {n \in DOMAIN results : results[n].result = "null"}}

\* The rows for which the detector gave null, and no result other than null
\* for any row with the same cleaned URL, in this cycle.
OnlyNull(results) ==
    {results[k].id : k \in {n \in DOMAIN results :
        \A m \in DOMAIN results :
            results[m].url = results[n].url => results[m].result = "null"}}

\* The steps of this process leave Status, Last Checked and Last Live of the
\* rows in ids as they are.
LeavesRows(ids) ==
    \A i \in DOMAIN sheet :
        sheet[i].id \in ids =>
            /\ HasRow(sheet', sheet[i].id)
            /\ RowOf(sheet', sheet[i].id).status = sheet[i].status
            /\ RowOf(sheet', sheet[i].id).lastChecked = sheet[i].lastChecked
            /\ RowOf(sheet', sheet[i].id).lastLive = sheet[i].lastLive

\* C10, amended: a check whose detector result is null leaves the pending map
\* as it was; and a row for which the detector gave null is left unchanged by
\* the cycle's commit when no other row with the same cleaned URL got a result
\* other than null in the cycle.
C10_NullStagesNothing ==
    [][/\ (Len(detectorResult') = Len(detectorResult) + 1
              /\ Last(detectorResult').result = "null")
          => pendingUpdates' = pendingUpdates
       /\ OwnStep =>
             LeavesRows(OnlyNull(detectorResult))
      ]_vars

\* The detector gave Live or Offline for one row and null for another, one
\* entry was pending, and the commit saved it.
C10_Witness ==
    /\ CommitReturned
    /\ Len(detectorResult) = 2
    /\ Len(entryPending) = 1
    /\ OnlyNull(detectorResult) # {}
    /\ commitLog[1].kind = "saved"

\* C10, as the specification states it: once the detector has given null for a
\* row, nothing is staged under that row's URL in the cycle, and the cycle's
\* commit leaves the row unchanged.
C10_NullRowUntouched ==
    [][/\ \A k \in DOMAIN detectorResult' :
             detectorResult'[k].result = "null"
                => ~MapHas(pendingUpdates', detectorResult'[k].url)
       /\ OwnStep =>
             LeavesRows(GaveNull(detectorResult))
      ]_vars

\* ======================================================= the due check
\* checkStatus applied to one row of a sheet, over the cells that decide it:
\* every kind of Link, the statuses the program writes and the empty cell, and
\* Last Checked and Last Live at, and one millisecond off, each threshold.

\* main's now of the first cycle (index.js 52): after the one getRows.
CheckTime == StartTime + CallTime

DueRows ==
    { Row(1, url, status, lastChecked, lastLive, Empty) :
        url \in {UrlA, UrlADirty, UrlBad, UrlNone},
        status \in {STATUS_LIVE, STATUS_OFFLINE, ""},
        lastChecked \in {Empty, CheckTime - RATE_LIVE, CheckTime - RATE_LIVE + 1,
                         CheckTime - RATE_OFF, CheckTime - RATE_OFF + 1},
        lastLive \in {Empty, CheckTime - RECENTLY_LIVE_THRESHOLD,
                      CheckTime - RECENTLY_LIVE_THRESHOLD - 1} }

InitDue ==
    /\ \E r \in DueRows : sheet = <<r>>
    /\ NoKnownStreamers
    /\ Started
    /\ OnlyMain

NextDue ==
    \/ CycleStart
    \/ GetRowsOK
    \/ SkipCheck
    \/ CallDetector
    \/ CheckStatus

SpecDue == InitDue /\ [][NextDue]_vars

\* checkStatus decides on the row at hand: it returns without a fetch, or it
\* calls fetchUrlStatus.
RowDecided == pc = "check" /\ (idx' = idx + 1 \/ inFlight' = inFlight + 1)

DetectorCalled == inFlight' = inFlight + 1

CalledTiers ==
    LET done == [k \in DOMAIN detectorResult |->
                    getPriority(RowOf(rows, detectorResult[k].id), now)]
    IN  IF pc = "fetching"
        THEN Append(done, getPriority(prioritized[idx], now))
        ELSE done

\* C12: at most one detector call is in flight, and within a cycle the calls
\* are made in the Prioritizer's order: no row of a lower tier is checked
\* before a row of a higher tier that is checked in the same cycle.
C12_SequentialInPriorityOrder ==
    /\ inFlight <= 1
    /\ pc \in {"check", "fetching"} =>
          \A i, j \in DOMAIN CalledTiers :
             i < j => CalledTiers[i] >= CalledTiers[j]

\* A second call of the cycle is in flight, for a row of a lower tier than
\* the first and standing before it in the sheet.
C12_Witness ==
    /\ pc = "fetching"
    /\ inFlight = 1
    /\ Len(detectorResult) = 1
    /\ CalledTiers[1] > CalledTiers[2]
    /\ detectorResult[1].id > prioritized[idx].id

\* ======================================================= the prioritizer
\* The sort of index.js 53-62 (the same function as prioritizeStreams of
\* src/lib/streamPrioritizer.js) applied to the lists of up to MaxSorted rows
\* drawn from SortedRows: a row for each tier, for each overlap of tiers, and
\* for each side of the recently-live threshold.
MaxSorted == 3

SortedRows ==
    { Row(0, UrlA, "", Empty, Empty, Empty),
      Row(0, UrlA, STATUS_LIVE, Empty, CheckTime - MINUTE, Empty),
      Row(0, UrlA, STATUS_LIVE, CheckTime - MINUTE, CheckTime - MINUTE, Empty),
      Row(0, UrlA, "LIVE", CheckTime - MINUTE, Empty, Empty),
      Row(0, UrlA, STATUS_OFFLINE, CheckTime - MINUTE,
          CheckTime - RECENTLY_LIVE_THRESHOLD, Empty),
      Row(0, UrlA, STATUS_OFFLINE, CheckTime - MINUTE,
          CheckTime - RECENTLY_LIVE_THRESHOLD - 1, Empty),
      Row(0, UrlA, STATUS_OFFLINE, CheckTime - MINUTE, Empty, Empty) }

InitSorted ==
    /\ \E n \in 0..MaxSorted : \E f \in [1..n -> SortedRows] :
          sheet = [i \in 1..n |-> [f[i] EXCEPT !.id = i]]
    /\ NoKnownStreamers
    /\ Started
    /\ OnlyMain

NextSorted ==
    \/ CycleStart
    \/ GetRowsOK

SpecSorted == InitSorted /\ [][NextSorted]_vars

\* The sort of the first cycle has returned.
SortDone == cycles = 1 /\ pc # "getRows"

\* The place of the row with this id in a list.
PlaceOf(list, id) == CHOOSE i \in DOMAIN list : list[i].id = id

\* C13: the Prioritizer's output is a permutation of its input in which every
\* tier-3 row (never checked) stands before every tier-2 row (status live),
\* which stands before every tier-1 row (last live within the recently-live
\* threshold, inclusive), which stands before every tier-0 row; a row that
\* matches several tiers has the highest of them.
C13_PermutationByTier ==
    SortDone =>
      LET matches(r, n) ==
              CASE n = 3 -> r.lastChecked = Empty
                [] n = 2 -> r.status \in {"Live", "live", "LIVE"}
                [] n = 1 -> r.lastLive # Empty /\ now - r.lastLive <= 20 * MINUTE
                [] n = 0 -> TRUE
          tier(r) == CHOOSE n \in 0..3 :
                        matches(r, n) /\ \A k \in 0..3 : matches(r, k) => k <= n
      IN  /\ Len(prioritized) = Len(rows)
          /\ \A i \in DOMAIN rows :
                \E j \in DOMAIN prioritized : prioritized[j] = rows[i]
          /\ \A i, j \in DOMAIN prioritized :
                i < j => tier(prioritized[i]) >= tier(prioritized[j])

\* A row last live exactly the threshold ago was sorted before a row last live
\* one millisecond earlier, and after a live row, which stood after them.
C13_Witness ==
    /\ SortDone
    /\ Len(prioritized) = 3
    /\ prioritized[1].status = STATUS_LIVE /\ prioritized[1].id = 3
    /\ prioritized[1].lastChecked # Empty
    /\ prioritized[2].lastLive = now - RECENTLY_LIVE_THRESHOLD /\ prioritized[2].id = 2
    /\ prioritized[3].lastLive = now - RECENTLY_LIVE_THRESHOLD - 1

\* C14: the Prioritizer is stable and pure: rows of equal tier stand in the
\* output in their input order, and the input list is as it was.
C14_StableAndPure ==
    SortDone =>
      /\ \A i, j \in DOMAIN prioritized :
            (/\ i < j
             /\ getPriority(prioritized[i], now) = getPriority(prioritized[j], now))
            => PlaceOf(rows, prioritized[i].id) < PlaceOf(rows, prioritized[j].id)
      /\ rows = sheet

\* Two rows of one tier were sorted, behind a row that stood after them.
C14_Witness ==
    /\ SortDone
    /\ Len(prioritized) = 3
    /\ prioritized[1].id = 3
    /\ prioritized[2].id = 1
    /\ prioritized[3].id = 2
    /\ getPriority(prioritized[2], now) = getPriority(prioritized[3], now)
    /\ rows = sheet

\* ===================================================== one promote call
\* checkKnownStreamers called once, in known-streamers-only mode, over hand
\* built Known Streamers sheets, Livesheets and last-check maps.

\* checkKnownStreamers' now in the first cycle: after its two getRows.
PromoteTime == StartTime + 2 * CallTime

\* The first n WatchUrls, each with the same Priority cell.
Streamers(n, cell) == [i \in 1..n |-> Streamer(WatchUrls[i], cell)]

\* Known Streamers sheets: none listed; twelve streamers of priority 100;
\* nine of priority 100 listed after three of lower priorities; rows without
\* a URL, with an invalid one, with a URL listed twice (once with white space)
\* and with priorities that are no number or out of range; ten rows of
\* priority 75 for nine URLs; a URL listed twice with priority 100 (once with
\* white space) and another listed twice with priority 50.
WatchLists ==
    { <<>>,
      Streamers(12, "100"),
      << Streamer(WatchUrls[12], "25"), Streamer(WatchUrls[11], "50"),
         Streamer(WatchUrls[10], "75") >> \o Streamers(9, "100"),
      << Streamer(UrlNone, "100"), Streamer(UrlBad, "100"),
         Streamer(UrlADirty, "100"), Streamer(UrlA, "75"),
         Streamer(UrlB, "abc"), Streamer(WatchUrls[3], "150"),
         Streamer(WatchUrls[4], "-5"), Streamer(WatchUrls[5], "") >>,
      Streamers(9, "75") \o << Streamer(UrlA, "75") >>,
      << Streamer(UrlA, "100"), Streamer(UrlADirty, "100"),
         Streamer(UrlB, "50"), Streamer(UrlB, "50") >> }

\* Last-check maps: nothing checked yet, or one of the first URLs checked in
\* the cycle before, or exactly an interval ago, or 1 ms less than that.
LastCheckMaps ==
    LET times == {PromoteTime - LOOP_DELAY_MIN - 2 * CallTime}
                 \cup {PromoteTime - getCheckRateForPriority(p) + d :
                         p \in {0, 25, 50, 75}, d \in {0, 1}}
    IN  {NewMap} \cup {SetKey(NewMap, WatchUrls[i], t) : i \in 1..4, t \in times}

\* Livesheets: empty; holding the first URL, with white space, as a live row;
\* holding the third URL as an offline row.
ActiveSheets ==
    { <<>>,
      << Row(1, UrlADirty, STATUS_LIVE, StartTime - MINUTE, StartTime - MINUTE,
             StartTime - 25 * MINUTE) >>,
      << Row(1, WatchUrls[3], STATUS_OFFLINE, StartTime - MINUTE, Empty, Empty) >> }

InitPromote ==
    /\ sheet \in ActiveSheets
    /\ KNOWN_STREAMERS_ONLY = TRUE
    /\ \E list \in WatchLists : knownStreamersSheet = [open |-> TRUE, rows |-> list]
    /\ knownStreamersLastCheck \in LastCheckMaps
    /\ Started
    /\ OnlyMain

NextPromote ==
    \/ KnownOnlyCycle
    \/ KnownRowsFail
    \/ KnownRowsEmpty
    \/ KnownRowsOK
    \/ KnownSkip
    \/ KnownAlreadyIn
    \/ KnownCheck
    \/ KnownAddRowFail

SpecPromote == InitPromote /\ [][NextPromote]_vars

\* The streamers fetchUrlStatus was called for in this call, by their place
\* in sortedStreamers.
Fetched == {promoLog[k].at : k \in {n \in DOMAIN promoLog :
                                     promoLog[n].kind \in {"checked", "addRowFailed"}}}

\* The loop went through every streamer and the call returned.
PromoteReturned ==
    pc = "sleep" /\ sortedStreamers # <<>> /\ Len(promoLog) = Len(sortedStreamers)
    /\ promoLog[Len(promoLog)].kind # "addRowFailed"

\* The call ended, in either way, after the loop began.
PromoteEnded == pc = "sleep" /\ sortedStreamers # <<>>

\* The streamers that were valid, due and not in the Livesheet when the call
\* began, by their place in sortedStreamers.
Candidates ==
    {i \in DOMAIN sortedStreamers :
        LET e == sortedStreamers[i]
        IN  /\ e.url # UrlNone
            /\ isValidLiveUrl(cleanUrl(e.url))
            /\ knownNow - GetOr0(lastCheckBefore, cleanUrl(e.url))
                  >= getCheckRateForPriority(e.priority)
            /\ ~isUrlInLivesheet(e.url, livesheetRows)}

CandidateUrls == {cleanUrl(sortedStreamers[i].url) : i \in Candidates}

StreamerStep == pc = "knownLoop" /\ promoLog' # promoLog

\* C16: for a streamer whose normalized URL is in the Livesheet snapshot, the
\* promoter calls no detector, adds no row, and does not count the streamer
\* toward the cap of the cycle.
C16_ActiveNeitherFetchedNorCounted ==
    [][(/\ StreamerStep
        /\ \E i \in DOMAIN livesheetRows :
              cleanUrl(livesheetRows[i].url) = cleanUrl(sortedStreamers[ki].url))
       => /\ lastResult' = "none"
          /\ promoLog'[Len(promoLog')].kind \notin {"checked", "addRowFailed"}
          /\ sheet' = sheet
          /\ checkedCount' = checkedCount
      ]_vars

\* A streamer whose URL the Livesheet holds with trailing white space was
\* passed over after another streamer was fetched.
C16_Witness ==
    /\ promoLog # <<>>
    /\ promoLog[Len(promoLog)].kind = "inLivesheet"
    /\ checkedCount >= 1
    /\ cleanUrl(sortedStreamers[promoLog[Len(promoLog)].at].url) = UrlA
    /\ \E i \in DOMAIN livesheetRows : livesheetRows[i].url = UrlADirty

\* The streamers left because the checks of the cycle were used up, by their
\* place in sortedStreamers.
Capped == {promoLog[k].at : k \in {n \in DOMAIN promoLog : promoLog[n].kind = "capped"}}

\* C17: if a valid, due streamer that is not in the active set is left
\* unchecked because the cap was reached, no streamer of strictly lower
\* priority is checked in that call.
C17_NoLowerPriorityChecked ==
    \A k \in Capped \cap Candidates :
       \A j \in Fetched :
          sortedStreamers[j].priority >= sortedStreamers[k].priority

\* Of a sheet that lists its three lower priorities first, the streamer of
\* priority 75 was fetched and those of priority 50 and 25 were left.
C17_Witness ==
    /\ PromoteReturned
    /\ \E k \in Capped \cap Candidates :
          sortedStreamers[k].priority = 50 /\ sortedStreamers[k].originalIdx = 2
    /\ \E j \in Fetched : sortedStreamers[j].priority = 75
    /\ \E k \in Capped : sortedStreamers[k].priority = 25

\* C19: the promoter adds a row for a URL only if the detector answered Live
\* for that URL in the same call; the row added has status Live and one
\* time as Last Checked, Last Live and Added Date; an Offline or null answer
\* adds nothing.
C19_AddsOnlyLive ==
    [][/\ sheet' # sheet =>
            /\ StreamerStep
            /\ lastResult' = "Live"
            /\ Len(sheet') = Len(sheet) + 1
            /\ SubSeq(sheet', 1, Len(sheet)) = sheet
            /\ LET added == sheet'[Len(sheet')]
               IN  /\ added.url = cleanUrl(sortedStreamers[ki].url)
                   /\ added.status = "Live"
                   /\ added.lastChecked # Empty
                   /\ added.lastChecked = added.lastLive
                   /\ added.lastLive = added.addedDate
       /\ (StreamerStep /\ lastResult' \in {"Offline", "null"}) => sheet' = sheet
      ]_vars

\* A streamer listed with white space around its URL answered Live and its
\* row is in the Livesheet, after a streamer that answered Offline or null.
C19_Witness ==
    /\ lastResult = STATUS_LIVE
    /\ Len(sheet) = Len(livesheetRows) + 1
    /\ checkedCount >= 2
    /\ sheet[Len(sheet)].url = UrlA
    /\ sortedStreamers[promoLog[Len(promoLog)].at].url = UrlADirty
    /\ sheet[Len(sheet)].addedDate = knownNow

\* C20: the promoter calls the detector for a streamer only if
\* now - lastCheck[url] >= interval(priority), lastCheck[url] being 0 for a
\* URL never checked; a streamer of priority >= 100 has interval 0 and is
\* never left as checked too recently.
C20_FetchedOnlyWhenDue ==
    [][StreamerStep =>
         LET e == sortedStreamers[ki]
             kind == promoLog'[Len(promoLog')].kind
             interval == CASE e.priority >= 100 -> 0
                           [] e.priority = 75 -> 1462500
                           [] e.priority = 50 -> 2025000
                           [] e.priority = 25 -> 3150000
                           [] OTHER -> 5400000
         IN  /\ kind \in {"checked", "addRowFailed"} =>
                   LET lastCheck == IF cleanUrl(e.url) \in DOMAIN knownStreamersLastCheck
                                    THEN knownStreamersLastCheck[cleanUrl(e.url)]
                                    ELSE 0
                   IN  knownNow - lastCheck >= interval
             /\ e.priority >= 100 => kind # "rateLimited"
      ]_vars

\* A streamer of priority 75, last checked exactly its interval ago, was
\* fetched.
C20_Witness ==
    /\ promoLog # <<>>
    /\ promoLog[Len(promoLog)].kind = "checked"
    /\ LET e == sortedStreamers[promoLog[Len(promoLog)].at]
       IN  /\ e.priority = 75
           /\ cleanUrl(e.url) \in DOMAIN lastCheckBefore
           /\ lastCheckBefore[cleanUrl(e.url)] = knownNow - 1462500

\* ================================================ cycle after cycle
\* The known-streamers-only mode running on, from a fresh process (the map
\* empty), with no streamer going live, so that the Known Streamers sheet
\* and the Livesheet stay as they are.

\* Known Streamers sheets: eleven streamers of priority 100; ten of priority
\* 100 and one of priority 75; one of priority 75 alone.
QuietLists ==
    { Streamers(11, "100"),
      Streamers(10, "100") \o << Streamer(WatchUrls[11], "75") >>,
      << Streamer(WatchUrls[11], "75") >> }

InitWatch ==
    /\ sheet \in ActiveSheets
    /\ KNOWN_STREAMERS_ONLY = TRUE
    /\ \E list \in QuietLists : knownStreamersSheet = [open |-> TRUE, rows |-> list]
    /\ knownStreamersLastCheck = NewMap
    /\ Started
    /\ OnlyMain

\* The streamer at hand is fetched and is not live.
KnownCheckNotLive == KnownCheck /\ lastResult' # STATUS_LIVE

\* index.js 83-86 in known-streamers-only mode: the sleep.  Times are kept
\* relative to the start of a cycle: checkKnownStreamers reads the clock and
\* the map only as now - lastCheck (line 111), so the clock is set back to
\* StartTime and every check time is set back with it; a check time that is
\* MAX_CHECK_RATE or more before the next cycle counts as never made (no
\* key), which the test of line 111 cannot tell apart, no rate being larger.
\* The count of cycles starts again with the clock.
KnownSleep ==
    /\ pc = "sleep"
    /\ KNOWN_STREAMERS_ONLY
    /\ LET elapsed == now + LOOP_DELAY_MIN - StartTime
           SetBack(t) == IF t - elapsed <= StartTime - MAX_CHECK_RATE
                         THEN 0 ELSE t - elapsed
           kept == {u \in DOMAIN knownStreamersLastCheck :
                       SetBack(knownStreamersLastCheck[u]) # 0}
       IN  knownStreamersLastCheck' =
              [u \in kept |-> SetBack(knownStreamersLastCheck[u])]
    /\ now' = StartTime
    /\ pc' = "cycleStart"
    /\ EndOfCycle
    /\ PromoteOver
    /\ cycles' = 0
    /\ UNCHANGED <<inFlight, sheet, extCount>>
    /\ UNCHANGED <<checkVars, commitVars, auxVars>>
    /\ UNCHANGED <<KNOWN_STREAMERS_ONLY, knownStreamersSheet>>

NextWatch ==
    \/ KnownOnlyCycle
    \/ KnownRowsOK
    \/ KnownSkip
    \/ KnownAlreadyIn
    \/ KnownCheckNotLive
    \/ KnownSleep

\* The loop keeps running: main never stops taking its next step.
SpecWatch == InitWatch /\ [][NextWatch]_vars /\ WF_vars(NextWatch)

\* The loop has just left the streamer with this URL, a candidate of the
\* call, because the checks of the cycle were used up.
JustCapped(url) ==
    /\ promoLog # <<>>
    /\ promoLog[Len(promoLog)].kind = "capped"
    /\ promoLog[Len(promoLog)].at \in Candidates
    /\ cleanUrl(sortedStreamers[promoLog[Len(promoLog)].at].url) = url

\* The loop has just fetched the streamer with this URL.
JustFetched(url) ==
    /\ promoLog # <<>>
    /\ promoLog[Len(promoLog)].kind = "checked"
    /\ cleanUrl(sortedStreamers[promoLog[Len(promoLog)].at].url) = url

\* C18: a streamer that is valid, due and not in the active set, and is left
\* unchecked in a cycle only because the cap was reached, is checked in some
\* later cycle, the loop running on and the two sheets staying as they are.
C18_CappedIsCheckedLater ==
    \A url \in ValidUrls : JustCapped(url) ~> JustFetched(url)

\* ================================================= the watch-list interval
\* getCheckRateForPriority called once, with every integer from MaxBeyond
\* below PRIORITY_MIN to MaxBeyond above PRIORITY_MAX, with every Priority
\* cell as a string, with null and with undefined.
MaxBeyond == 5

PriorityValues ==
    {Num(n) : n \in (PRIORITY_MIN - MaxBeyond)..(PRIORITY_MAX + MaxBeyond)}
    \cup {Str(cell) : cell \in PriorityCells}
    \cup {Null, Undefined}

\* Nothing else runs in the process that makes the call.
Idle ==
    /\ sheet = <<>>
    /\ NoKnownStreamers
    /\ Started

InitRate ==
    /\ \E value \in PriorityValues : rateCall = [priority |-> value, rate |-> Empty]
    /\ archiver = [pc |-> "none"]
    /\ client = [pc |-> "none"]
    /\ Idle

\* The call returns.
GetCheckRate ==
    /\ rateCall.rate = Empty
    /\ rateCall' = [rateCall EXCEPT
                       !.rate = getCheckRateForPriority(ParsePriority(rateCall.priority))]
    /\ UNCHANGED <<mainVars, checkVars, commitVars, envVars, knownVars, promoteVars>>
    /\ UNCHANGED <<archiver, client>>

NextRate == GetCheckRate

SpecRate == InitRate /\ [][NextRate]_vars

RateReturned == rateCall.rate # Empty

C22_IntervalBoundsAndMonotone ==
    (RateReturned /\ rateCall.priority.t = "number") =>
      LET p == rateCall.priority.n
      IN  /\ p = 100 => rateCall.rate = 0
          /\ p = 0 => rateCall.rate = 90 * MINUTE
          /\ p \in 0..99 => rateCall.rate >= 15 * MINUTE
          /\ p \in 0..98 => rateCall.rate >= getCheckRateForPriority(p + 1)

\* The call with 99 has returned an interval above 15 minutes and below that
\* of 98.
C22_Witness ==
    /\ RateReturned
    /\ rateCall.priority = Num(99)
    /\ rateCall.rate > 15 * MINUTE
    /\ rateCall.rate < getCheckRateForPriority(98)

\* =================================================== main, from its start
\* main() from its first line, in either mode, with or without a Known
\* Streamers sheet, running on cycle after cycle, over sheets whose rows
\* hold no stream to fetch, so that both sheets stay as they are.

\* Livesheets: empty; a row with no URL; a row whose link is no stream URL;
\* both rows.
LoopSheets ==
    { <<>>,
      << Row(1, UrlNone, "", Empty, Empty, Empty) >>,
      << Row(1, UrlBad, "", Empty, Empty, Empty) >>,
      << Row(1, UrlNone, "", Empty, Empty, Empty),
         Row(2, UrlBad, "", Empty, Empty, Empty) >> }

\* Known Streamers sheets: none; one without rows; a row with an invalid
\* URL; a row with no URL and a row with an invalid one.
LoopKnownSheets ==
    { [open |-> FALSE, rows |-> <<>>],
      [open |-> TRUE, rows |-> <<>>],
      [open |-> TRUE, rows |-> << Streamer(UrlBad, "100") >>],
      [open |-> TRUE, rows |-> << Streamer(UrlNone, "50"), Streamer(UrlBad, "100") >>] }

InitLoop ==
    /\ sheet \in LoopSheets
    /\ KNOWN_STREAMERS_ONLY \in BOOLEAN
    /\ knownStreamersSheet \in LoopKnownSheets
    /\ knownStreamersLastCheck = NewMap
    /\ pc = "start"
    /\ NothingYet
    /\ OnlyMain

Start_ExitsWithoutSheet ==
    /\ pc = "start"
    /\ pc' = IF ~knownStreamersSheet.open THEN "exit(1)" ELSE "cycleStart"
    /\ UNCHANGED <<cycles, cycleStartTime, rows, prioritized, inFlight, idx>>
    /\ UNCHANGED <<checkVars, commitVars, envVars, knownVars, promoteVars, auxVars>>

\* index.js 31-39: main logs its mode; in known-streamers-only mode without a
\* Known Streamers sheet it logs the error and calls process.exit(1).
Start ==
    /\ pc = "start"
    /\ pc' = IF KNOWN_STREAMERS_ONLY /\ ~knownStreamersSheet.open
             THEN "exit(1)"
             ELSE "cycleStart"
    /\ UNCHANGED <<cycles, cycleStartTime, rows, prioritized, inFlight, idx>>
    /\ UNCHANGED <<checkVars, commitVars, envVars, knownVars, promoteVars, auxVars>>

\* A time so long before StartTime that no test of the program tells it from
\* an earlier one: the largest span a Livesheet time is compared with is
\* RECENTLY_LIVE_THRESHOLD (index.js 58), the rates being smaller.
LongAgo == StartTime - RECENTLY_LIVE_THRESHOLD - 1

\* Between two cycles the times are counted anew: the program reads the clock
\* and the stored times only as differences (index.js 58, checkStatus 118,
\* checkKnownStreamers 111), so the clock is set back to StartTime and every
\* stored time with it, none further than LongAgo; a check time of the map
\* that is MAX_CHECK_RATE or more before counts as never made.  The count of
\* cycles starts again with the clock.
NewEpoch ==
    /\ pc = "cycleStart"
    /\ now # StartTime
    /\ LET elapsed == now - StartTime
           SetBack(t) == IF t = Empty THEN Empty ELSE Max(t - elapsed, LongAgo)
           MapBack(t) == IF t - elapsed <= StartTime - MAX_CHECK_RATE
                         THEN 0 ELSE t - elapsed
           kept == {u \in DOMAIN knownStreamersLastCheck :
                       MapBack(knownStreamersLastCheck[u]) # 0}
       IN  /\ sheet' = [i \in DOMAIN sheet |->
                          [sheet[i] EXCEPT !.lastChecked = SetBack(@),
                                           !.lastLive = SetBack(@),
                                           !.addedDate = SetBack(@)]]
           /\ knownStreamersLastCheck' =
                 [u \in kept |-> MapBack(knownStreamersLastCheck[u])]
    /\ now' = StartTime
    /\ cycles' = 0
    /\ UNCHANGED <<pc, cycleStartTime, rows, prioritized, inFlight, idx, extCount>>
    /\ UNCHANGED <<checkVars, commitVars, promoteVars, auxVars>>
    /\ UNCHANGED <<KNOWN_STREAMERS_ONLY, knownStreamersSheet>>

NextLoop ==
    \/ Start
    \/ CycleStart
    \/ GetRowsOK
    \/ GetRowsFail
    \/ SkipCheck
    \/ BatchNoUpdates
    \/ CheckKnownStreamers
    \/ KnownOnlyCycle
    \/ KnownRowsFail
    \/ KnownRowsEmpty
    \/ KnownRowsOK
    \/ KnownSkip
    \/ Sleep
    \/ ErrorDelay
    \/ NewEpoch

\* main keeps taking its next step as long as it has one.
SpecLoop == InitLoop /\ [][NextLoop]_vars /\ WF_vars(NextLoop)

\* The catch of the loop has taken over (index.js 88).
Caught == pc = "errorDelay"

\* A cycle has started: its first call is awaited.
CycleBegun == pc \in {"getRows", "known"}

\* C23: when a step of a cycle raises, the loop (logs and) waits exactly
\* ERROR_RETRY_DELAY, not the jittered delay, and is back at its head; no
\* step taken inside the loop ends the process; and after an error a new
\* cycle always starts.
C23_ErrorRestartsLoop ==
    /\ [][Caught => /\ now' = now + ERROR_RETRY_DELAY
                    /\ pc' = "cycleStart"]_vars
    /\ [][pc # "start" => pc' # "exit(1)"]_vars
    /\ (Caught ~> CycleBegun)

\* getRows has rejected in the first cycle, the catch has waited, and the
\* loop is at its head again.
C23_Witness ==
    /\ pc = "cycleStart"
    /\ cycles = 1
    /\ now = StartTime + CallTime + ERROR_RETRY_DELAY

\* The steps of main that belong to the Livesheet part of a cycle: the
\* snapshot is awaited, checkStatus runs, batchUpdateRows runs.
InLivesheetPart == pc \in {"getRows", "check", "fetching", "commit", "commitLoop"}

\* checkKnownStreamers is running or about to.
InPromoter == pc \in {"known", "knownLoop"}

\* C24: in known-streamers-only mode no cycle reads the Livesheet snapshot,
\* calls checkStatus or calls batchUpdateRows, and every cycle calls
\* checkKnownStreamers; in normal mode too a cycle goes to its sleep only
\* through checkKnownStreamers, which is called as soon as the commit is over.
C24_PromoterAlwaysLivesheetPartOnlyInNormalMode ==
    /\ [](KNOWN_STREAMERS_ONLY =>
            /\ ~InLivesheetPart
            /\ rows = <<>> /\ prioritized = <<>> /\ pendingUpdates = <<>>
            /\ commitResult = "none" /\ refetch = "none")
    /\ [][/\ (KNOWN_STREAMERS_ONLY /\ pc = "cycleStart" /\ pc' # pc) => pc' = "known"
          /\ (pc \in {"commit", "commitLoop"} /\ pc' \notin {"commit", "commitLoop"})
                => pc' = "known"
          /\ pc = "known" => pc' \in {"knownLoop", "sleep"}
          /\ (pc' = "sleep" /\ pc # "sleep") => InPromoter]_vars

\* A cycle of the known-streamers-only mode has gone through the Known
\* Streamers sheet and is about to sleep.
C24_Witness ==
    /\ KNOWN_STREAMERS_ONLY
    /\ pc = "sleep"
    /\ promoLog # <<>>
    /\ cycles = 1

\* Known-streamers-only mode is requested and there is no Known Streamers
\* sheet.
NoSheetForKnownOnly == KNOWN_STREAMERS_ONLY /\ ~knownStreamersSheet.open

\* C25: with known-streamers-only mode requested and no Known Streamers
\* sheet, main (logs the error and) exits with status 1 before any cycle
\* starts: nothing has been fetched, checked, committed or promoted; the
\* process ends itself on no other path, and nothing follows the exit.
C25_ExitsOnlyAtStartWithoutSheet ==
    /\ [][/\ (pc = "start" /\ NoSheetForKnownOnly) => pc' = "exit(1)"
          /\ pc' = "exit(1)" => (pc = "start" /\ NoSheetForKnownOnly)]_vars
    /\ [](pc = "exit(1)" =>
            /\ cycles = 0 /\ cycleStartTime = 0 /\ now = StartTime
            /\ rows = <<>> /\ pendingUpdates = <<>> /\ commitResult = "none"
            /\ promoLog = <<>> /\ knownStreamersLastCheck = NewMap
            /\ ~ENABLED NextLoop)

\* main has exited with status 1.
C25_Witness ==
    /\ pc = "exit(1)"
    /\ NoSheetForKnownOnly

\* ============================================================ the archiver
\* archiveExpiredStreams called once, over a StreamSource store that another
\* writer may change while the call runs.

MaxStreams == 2               \* streams held by the store
ARCHIVE_THRESHOLD_MINUTES == 30
ARCHIVE_DELAY == 100          \* await delay(100)

\* A stream as the API gives it; a time is in ms, Empty for null.
Stream(id, status, last_live_at, updated_at) ==
    [id |-> id, status |-> status, last_live_at |-> last_live_at,
     updated_at |-> updated_at, is_archived |-> FALSE]

\* new Date() when getExpiredOfflineStreams filters, in the call of Init.
QueryTime == StartTime + CallTime

\* The streams a store may hold when the call begins (id 0 is replaced by the
\* stream's place): offline for 45 minutes; offline for 10 minutes; unknown,
\* never live, updated 45 minutes ago; live; offline and, when the query
\* filters, last live exactly the threshold ago.
StoredStreams ==
    { Stream(0, "offline", StartTime - 45 * MINUTE, StartTime - 45 * MINUTE),
      Stream(0, "offline", StartTime - 10 * MINUTE, StartTime - 10 * MINUTE),
      Stream(0, "unknown", Empty, StartTime - 45 * MINUTE),
      Stream(0, "live", StartTime - 45 * MINUTE, StartTime - MINUTE),
      Stream(0, "offline", QueryTime - ARCHIVE_THRESHOLD_MINUTES * MINUTE,
             StartTime - 45 * MINUTE) }

\* The lists a prepared client answers with, as in streamArchiver.test.js:
\* a live stream, one offline for 10 minutes and one offline for 45; a
\* stream last live exactly the threshold before it is looked at, one that
\* is 1 ms short of the threshold when it is looked at after the first was
\* archived, and one never live, updated 45 minutes ago.
PreparedLists ==
    { << Stream(1, "live", StartTime - 45 * MINUTE, StartTime - 45 * MINUTE),
         Stream(2, "offline", StartTime - 10 * MINUTE, StartTime - 10 * MINUTE),
         Stream(3, "offline", StartTime - 45 * MINUTE, StartTime - 45 * MINUTE) >>,
      << Stream(1, "offline", QueryTime - ARCHIVE_THRESHOLD_MINUTES * MINUTE,
                StartTime - 45 * MINUTE),
         Stream(2, "offline",
                QueryTime + CallTime + ARCHIVE_DELAY
                   - ARCHIVE_THRESHOLD_MINUTES * MINUTE + 1,
                StartTime - 45 * MINUTE),
         Stream(3, "unknown", Empty, StartTime - 45 * MINUTE) >> }

\* archiveExpiredStreams has been called with a client of this kind over this
\* store.
Archiving(kind, store, prepared) ==
    [pc |-> "query", client |-> kind, store |-> store, prepared |-> prepared,
     expiredStreams |-> <<>>, i |-> 1, archivedCount |-> 0, errorCount |-> 0,
     log |-> <<>>]

InitArchive ==
    /\ \/ \E f \in [1..MaxStreams -> StoredStreams] :
             archiver = Archiving("StreamSourceClient",
                                  [k \in 1..MaxStreams |-> [f[k] EXCEPT !.id = k]], <<>>)
       \/ \E list \in PreparedLists :
             archiver = Archiving("prepared", list, list)
    /\ rateCall = [priority |-> [t |-> "none"], rate |-> Empty]
    /\ client = [pc |-> "none"]
    /\ Idle

\* What an archiver step leaves alone.
InArchiver ==
    /\ UNCHANGED <<mainVars, checkVars, commitVars, knownVars, promoteVars>>
    /\ UNCHANGED <<sheet, extCount, rateCall, client>>

\* stream.last_live_at ? new Date(stream.last_live_at) : new Date(stream.updated_at)
LastLiveTime(stream) ==
    IF stream.last_live_at # Empty THEN stream.last_live_at ELSE stream.updated_at

\* getExpiredOfflineStreams 208-221: the filter.
Expired(stream, t) ==
    /\ stream.status \in {"offline", "unknown"}
    /\ t - LastLiveTime(stream) > ARCHIVE_THRESHOLD_MINUTES * MINUTE

\* archiveExpiredStreams 18-25 after the client has answered with list.
Answered(list) ==
    [archiver EXCEPT !.expiredStreams = list,
                     !.pc = IF list = <<>> THEN "done" ELSE "loop"]

\* StreamSourceClient.getExpiredOfflineStreams 182-221: the streams that are
\* not archived are read, and filtered at the time the answer is in.
GetExpiredOfflineStreams ==
    /\ archiver.pc = "query"
    /\ archiver.client = "StreamSourceClient"
    /\ now' = now + CallTime
    /\ LET NotArchived(stream) == ~stream.is_archived
           IsExpired(stream) == Expired(stream, now')
       IN  archiver' = Answered(SelectSeq(SelectSeq(archiver.store, NotArchived), IsExpired))
    /\ InArchiver

\* streamArchiver.test.js 91-117: the client answers with a prepared list.
GetExpiredPrepared ==
    /\ archiver.pc = "query"
    /\ archiver.client = "prepared"
    /\ now' = now + CallTime
    /\ archiver' = Answered(archiver.prepared)
    /\ InArchiver

\* archiveExpiredStreams 18, 58-60: the query rejects; the error is logged and
\* thrown again.
GetExpiredFail ==
    /\ archiver.pc = "query"
    /\ now' = now + CallTime
    /\ archiver' = [archiver EXCEPT !.pc = "threw"]
    /\ InArchiver

\* Another writer finds a stream of the store live while the archiver is in
\* its loop: updateStreamStatus 133-145.
StreamGoesLive ==
    /\ archiver.pc = "loop"
    /\ \E id \in DOMAIN archiver.store :
          /\ archiver.store[id].status # "live"
          /\ archiver' = [archiver EXCEPT !.store[id].status = "live",
                                          !.store[id].last_live_at = now]
    /\ UNCHANGED now
    /\ InArchiver

\* The candidate at hand.
Candidate == archiver.expiredStreams[archiver.i]

Qualifies_StatusOnly(stream, t) ==
    stream.status \in {"offline", "unknown"}

\* archiveExpiredStreams 35-39: the condition under which the candidate is
\* not skipped.
Qualifies(stream, t) ==
    /\ stream.status \in {"offline", "unknown"}
    /\ ~(t - LastLiveTime(stream) < ARCHIVE_THRESHOLD_MINUTES * MINUTE)

\* The loop is done with the candidate at hand, having logged kind; after the
\* last one the counts are returned.  The entry keeps, beside the log line,
\* the time and the status the store held for the stream at that moment.
Logged(kind) ==
    [archiver EXCEPT
        !.log = Append(@, [at |-> archiver.i, id |-> Candidate.id, kind |-> kind,
                           time |-> now,
                           stored |-> archiver.store[Candidate.id].status]),
        !.i = @ + 1,
        !.pc = IF archiver.i < Len(archiver.expiredStreams) THEN "loop" ELSE "done"]

\* archiveExpiredStreams 39-42: the candidate is skipped as "state changed".
ArchiveSkip ==
    /\ archiver.pc = "loop"
    /\ ~Qualifies(Candidate, now)
    /\ archiver' = Logged("skipped")
    /\ UNCHANGED now
    /\ InArchiver

\* archiveExpiredStreams 44-49: archiveStream resolves: the stream is
\* archived in the store, the count goes up, the delay is awaited.
ArchiveStreamOK ==
    /\ archiver.pc = "loop"
    /\ Qualifies(Candidate, now)
    /\ archiver' = [Logged("archived") EXCEPT
                       !.store[Candidate.id].is_archived = TRUE,
                       !.archivedCount = @ + 1]
    /\ now' = now + CallTime + ARCHIVE_DELAY
    /\ InArchiver

ArchiveStreamFail_Stops ==
    /\ archiver.pc = "loop"
    /\ Qualifies(Candidate, now)
    /\ archiver' = [Logged("failed") EXCEPT !.errorCount = @ + 1, !.pc = "done"]
    /\ now' = now + CallTime
    /\ InArchiver

\* archiveExpiredStreams 44, 50-53: archiveStream rejects: the error count
\* goes up, the loop goes on.
ArchiveStreamFail ==
    /\ archiver.pc = "loop"
    /\ Qualifies(Candidate, now)
    /\ archiver' = [Logged("failed") EXCEPT !.errorCount = @ + 1]
    /\ now' = now + CallTime
    /\ InArchiver

NextArchive ==
    \/ GetExpiredOfflineStreams
    \/ GetExpiredPrepared
    \/ GetExpiredFail
    \/ StreamGoesLive
    \/ ArchiveSkip
    \/ ArchiveStreamOK
    \/ ArchiveStreamFail

SpecArchive == InitArchive /\ [][NextArchive]_vars

\* The entries of the archiver's log of one kind.
Entries(kind) == {k \in DOMAIN archiver.log : archiver.log[k].kind = kind}

\* The entries for which archiveStream was called.
ArchiveCalls == Entries("archived") \cup Entries("failed")

\* C26: no archive write is issued for a stream whose status in the store
\* changed to live between the query and that write: it is skipped.
C26_NoArchiveWriteAfterGoingLive ==
    archiver.pc \in {"loop", "done"} =>
      \A k \in ArchiveCalls :
         LET e == archiver.log[k]
         IN  ~(/\ archiver.expiredStreams[e.at].status # "live"
               /\ e.stored = "live")

\* C27: every stream archiveStream is called for has, in the candidate the
\* archiver looked at, status offline or unknown and an age (the time of the
\* look minus last_live_at, or minus updated_at when last_live_at is null)
\* of at least the threshold; a candidate failing either is skipped: no
\* archive call is made for it and errorCount does not count it.
C27_ArchivesOnlyVerifiedCandidates ==
    archiver.pc \in {"loop", "done"} =>
      /\ \A k \in DOMAIN archiver.log :
            LET e == archiver.log[k]
                stream == archiver.expiredStreams[e.at]
                age == e.time - (IF stream.last_live_at # Empty
                                 THEN stream.last_live_at ELSE stream.updated_at)
                verified == /\ stream.status \in {"offline", "unknown"}
                            /\ age >= ARCHIVE_THRESHOLD_MINUTES * MINUTE
            IN  /\ k \in ArchiveCalls => verified
                /\ k \in Entries("skipped") => ~verified
      /\ archiver.errorCount <= Cardinality(ArchiveCalls)
      /\ \A id \in DOMAIN archiver.store :
            archiver.store[id].is_archived =>
               \E k \in Entries("archived") : archiver.log[k].id = id

\* A stream last live exactly the threshold ago has been archived, and an
\* offline stream 1 ms short of the threshold has been skipped.
C27_Witness ==
    /\ archiver.pc = "done"
    /\ \E k \in Entries("archived") :
          archiver.log[k].time - archiver.expiredStreams[archiver.log[k].at].last_live_at
             = ARCHIVE_THRESHOLD_MINUTES * MINUTE
    /\ \E k \in Entries("skipped") :
          /\ archiver.expiredStreams[archiver.log[k].at].status = "offline"
          /\ archiver.log[k].time - archiver.expiredStreams[archiver.log[k].at].last_live_at
                = ARCHIVE_THRESHOLD_MINUTES * MINUTE - 1

\* C28: a failing archive call does not stop the run: every candidate gets
\* its turn, errorCount is the number of archive calls that failed,
\* archivedCount the number that succeeded, and with the candidates skipped
\* as "state changed" they add up to the number of candidates.
C28_CountsAndNoStopOnFailure ==
    archiver.pc \in {"loop", "done"} =>
      /\ archiver.errorCount = Cardinality(Entries("failed"))
      /\ archiver.archivedCount = Cardinality(Entries("archived"))
      /\ \A k \in DOMAIN archiver.log : archiver.log[k].at = k
      /\ archiver.pc = "done" =>
            /\ Len(archiver.log) = Len(archiver.expiredStreams)
            /\ archiver.archivedCount + archiver.errorCount
                  + Cardinality(Entries("skipped")) = Len(archiver.expiredStreams)

\* The call has returned after an archive call failed, a later candidate
\* was archived and one was skipped.
C28_Witness ==
    /\ archiver.pc = "done"
    /\ \E k \in Entries("failed"), j \in Entries("archived") : k < j
    /\ Entries("skipped") # {}

\* ================================================= the StreamSource client
\* One StreamSourceClient making requests that need the token, one after the
\* other, the server answering each fetch as it likes.

MaxRequests == 2      \* calls of request() made from outside the client
MaxAttempts == 3      \* fetches of the endpoint within one such call
RATE_LIMIT_BASE == 100

\* What a fetch may end with: the status of the response, or NoResponse when
\* fetch rejects.
NoResponse == 0
Answers == {200, 401, 429, 500, NoResponse}

\* new StreamSourceClient(config, logger), lines 3-18; the token may also be
\* one got earlier, valid or past its expiry.  sent is the time at which the
\* last call of fetch (line 72) was made, 0 before the first.
InitClient ==
    /\ \E token \in {"null", "valid", "expired"} :
          client = [pc |-> "idle", token |-> token,
                    rateLimitDelay |-> RATE_LIMIT_BASE, lastRequestTime |-> 0,
                    requests |-> 0, attempts |-> 0, reauths |-> 0,
                    responses |-> <<>>, sent |-> 0]
    /\ rateCall = [priority |-> [t |-> "none"], rate |-> Empty]
    /\ archiver = [pc |-> "none"]
    /\ Idle

\* What a step of the client leaves alone.
InClient ==
    /\ UNCHANGED <<mainVars, checkVars, commitVars, knownVars, promoteVars>>
    /\ UNCHANGED <<sheet, extCount, rateCall, archiver>>

\* request 53-58: the time at which the rate limiting lets the request go.
SendTime == Max(now, client.lastRequestTime + client.rateLimitDelay)

\* request 66-69 and ensureAuthenticated: where a request goes after its
\* rate limiting: to the login when there is no token or it has expired.
AfterRateLimit(token) == IF token = "valid" THEN "fetch" ELSE "login"

\* request 51-69, called from outside: rate limiting, then the token.
Request ==
    /\ client.pc \in {"idle", "done", "failed"}
    /\ client.requests < MaxRequests
    /\ client' = [client EXCEPT !.requests = @ + 1,
                                !.attempts = 0,
                                !.reauths = 0,
                                !.lastRequestTime = SendTime,
                                !.pc = AfterRateLimit(client.token)]
    /\ now' = SendTime
    /\ InClient

\* What the response to a fetch does to the delay, lines 86-91 and 106.
DelayAfter(answer, delay) ==
    IF answer = 200 THEN RATE_LIMIT_BASE
    ELSE IF answer = 429 THEN delay * 2
    ELSE delay

Login_KeepsDelay ==
    /\ client.pc = "login"
    /\ \E answer \in Answers :
          client' = [client EXCEPT
                        !.lastRequestTime = SendTime,
                        !.sent = SendTime,
                        !.responses = Append(@, answer),
                        !.rateLimitDelay = IF answer = 429 THEN @ * 2 ELSE @,
                        !.token = IF answer = 200 THEN "valid" ELSE @,
                        !.pc = IF answer = 200 THEN "fetch" ELSE "failed"]
    /\ now' = SendTime + CallTime
    /\ InClient

\* authenticate 20-43, from ensureAuthenticated or from line 97: the login is
\* a request with skipAuth: rate limiting, the fetch, the response.  With the
\* token set the endpoint is fetched (after line 97 through request(), whose
\* rate limiting then comes first); a failed login fails the request.
Login ==
    /\ client.pc = "login"
    /\ \E answer \in Answers :
          client' = [client EXCEPT
                        !.lastRequestTime = SendTime,
                        !.sent = SendTime,
                        !.responses = Append(@, answer),
                        !.rateLimitDelay = DelayAfter(answer, @),
                        !.token = IF answer = 200 THEN "valid" ELSE @,
                        !.pc = IF answer = 200 THEN "fetch" ELSE "failed"]
    /\ now' = SendTime + CallTime
    /\ InClient

\* request 71-112: the endpoint is fetched with the token: a good response is
\* returned; a 401 clears the token and leads to authenticate and to the
\* request again; any other response, or none, is thrown.  A fetch made by
\* the request of line 99 has that request's rate limiting before it.
Fetch ==
    /\ client.pc = "fetch"
    /\ client.attempts < MaxAttempts
    /\ \E answer \in Answers :
          client' = [client EXCEPT
                        !.lastRequestTime = IF client.reauths > 0 THEN SendTime ELSE @,
                        !.sent = IF client.reauths > 0 THEN SendTime ELSE now,
                        !.attempts = @ + 1,
                        !.responses = Append(@, answer),
                        !.rateLimitDelay = DelayAfter(answer, @),
                        !.token = IF answer = 401 THEN "null" ELSE @,
                        !.reauths = IF answer = 401 THEN @ + 1 ELSE @,
                        !.pc = IF answer = 200 THEN "done"
                               ELSE IF answer = 401 THEN "login"
                               ELSE "failed"]
    /\ now' = (IF client.reauths > 0 THEN SendTime ELSE now) + CallTime
    /\ InClient

NextClient ==
    \/ Request
    \/ Login
    \/ Fetch

SpecClient == InitClient /\ [][NextClient]_vars

\* C29: within one request call the client re-authenticates at most once
\* and fetches the endpoint at most twice: a 401 to the retried request
\* fails the call.
C29_AtMostOneReauthAndOneRetry ==
    client.pc # "none" => (client.reauths <= 1 /\ client.attempts <= 2)

\* 2^n
RECURSIVE Pow2(_)
Pow2(n) == IF n = 0 THEN 1 ELSE 2 * Pow2(n - 1)

\* The number of 429 responses since the last 200, in a sequence of responses.
RECURSIVE Since200(_)
Since200(responses) ==
    IF responses = <<>> \/ responses[Len(responses)] = 200 THEN 0
    ELSE Since200(SubSeq(responses, 1, Len(responses) - 1))
           + (IF responses[Len(responses)] = 429 THEN 1 ELSE 0)

\* C30: the delay between requests is always 100 ms times 2^n, n being the
\* number of 429 responses since the last good response, a good login
\* included.
C30_DelayIsBaseTimesPowerOfTwo ==
    client.pc # "none" =>
       client.rateLimitDelay = 100 * Pow2(Since200(client.responses))

\* A login was answered 429, which doubled the delay, and the next login was
\* good: the delay is back at 100 ms, the endpoint not fetched yet.
C30_Witness ==
    /\ client.responses = <<429, 200>>
    /\ client.pc = "fetch"
    /\ client.rateLimitDelay = 100

\* ===================================================== one whole cycle
\* main in normal mode, alone with its sheets: the Livesheet part of a cycle
\* followed by checkKnownStreamers over a Known Streamers sheet.

\* Livesheets: one row never checked; a live row that is due and an offline
\* row that is due, its URL stored with trailing white space; a row checked
\* too recently and a row without a URL.
CycleSheets ==
    { << Row(1, UrlA, "", Empty, Empty, Empty) >>,
      << Row(1, UrlB, STATUS_LIVE, StartTime - 3 * MINUTE, StartTime - 3 * MINUTE,
             StartTime - 25 * MINUTE),
         Row(2, UrlADirty, STATUS_OFFLINE, StartTime - 8 * MINUTE,
             StartTime - 21 * MINUTE, StartTime - 25 * MINUTE) >>,
      << Row(1, UrlB, STATUS_OFFLINE, StartTime - 3 * MINUTE, Empty, Empty),
         Row(2, UrlNone, "", Empty, Empty, Empty) >> }

\* Known Streamers sheets: none; one without rows; one listing a streamer
\* that may be in the Livesheet, one that is not, and an invalid URL.
CycleKnownSheets ==
    { [open |-> FALSE, rows |-> <<>>],
      [open |-> TRUE, rows |-> <<>>],
      [open |-> TRUE, rows |-> << Streamer(UrlA, "100"), Streamer(WatchUrls[3], "100"),
                                  Streamer(UrlBad, "50") >>] }

InitCycle ==
    /\ sheet \in CycleSheets
    /\ KNOWN_STREAMERS_ONLY = FALSE
    /\ knownStreamersSheet \in CycleKnownSheets
    /\ knownStreamersLastCheck = NewMap
    /\ Started
    /\ OnlyMain

NextCycle ==
    \/ CycleStart
    \/ GetRowsOK
    \/ GetRowsFail
    \/ SkipCheck
    \/ CallDetector
    \/ CheckStatus
    \/ BatchNoUpdates
    \/ RefetchOK
    \/ RefetchFail
    \/ SkipEntry
    \/ SaveOK
    \/ SaveFail
    \/ CheckKnownStreamers
    \/ KnownRowsFail
    \/ KnownRowsEmpty
    \/ KnownRowsOK
    \/ KnownSkip
    \/ KnownAlreadyIn
    \/ KnownCheck
    \/ KnownAddRowFail
    \/ Sleep
    \/ ErrorDelay

SpecCycle == InitCycle /\ [][NextCycle]_vars

\* batchUpdateRows is running.
InCommit == pc \in {"commit", "commitLoop"}

\* C31: in a cycle of the normal mode cycleStartTime is taken before the
\* snapshot is asked for and stays as it is until the sleep; batchUpdateRows
\* is called only when checkStatus has returned for every row of the
\* snapshot, and decides with that cycleStartTime; checkKnownStreamers is
\* called only when batchUpdateRows has returned, and nothing is committed
\* while it runs; the sleep, of LOOP_DELAY_MIN to LOOP_DELAY_MAX, begins only
\* when checkKnownStreamers has returned.
C31_CycleStepsInOrder ==
    [][/\ (pc' = "getRows" /\ pc # "getRows")
            => pc = "cycleStart" /\ cycleStartTime' = now /\ now' = now /\ rows' = <<>>
       /\ (pc = "getRows" /\ rows' # rows) => cycleStartTime < now'
       /\ (pc \notin {"cycleStart", "sleep", "errorDelay"})
            => cycleStartTime' = cycleStartTime
       /\ (InCommit' /\ ~InCommit)
            => /\ pc \in {"getRows", "check", "fetching"}
               /\ inFlight' = 0
               /\ idx' = Len(prioritized') + 1
               /\ Len(prioritized') = Len(rows')
       /\ (InPromoter' /\ ~InPromoter)
            => InCommit /\ commitResult' = "returned" /\ pendingUpdates' = <<>>
       /\ InPromoter => updateCount' = 0 /\ skipCount' = 0 /\ inFlight' = 0
       /\ (pc' = "sleep" /\ pc # "sleep") => InPromoter
       /\ pc = "sleep" => /\ pc' = "cycleStart"
                          /\ now' >= now + LOOP_DELAY_MIN
                          /\ now' <= now + LOOP_DELAY_MAX]_vars

\* A cycle is about to sleep: its commit wrote the row of the snapshot, and
\* after it checkKnownStreamers fetched a streamer.
C31_Witness ==
    /\ pc = "sleep"
    /\ cycles = 1
    /\ sheet[1].lastChecked = StartTime + 2 * CallTime
    /\ \E k \in DOMAIN promoLog : promoLog[k].kind = "checked"

\* The rows of a snapshot whose Link cell, cleaned, is url.
RowsWithCleanLink(list, url) ==
    {i \in DOMAIN list : list[i].url # UrlNone /\ cleanUrl(list[i].url) = url}

\* C32: a pending entry is counted as deleted only when no row of the fresh
\* snapshot holds its URL, the Link cells being compared in their cleaned
\* form, the form of the pending map's keys: a row whose Link cell differs
\* from its cleaned form is found and written like any other.
C32_PresentRowIsNotCountedDeleted ==
    \A k \in DOMAIN commitLog :
        commitLog[k].kind = "deleted"
            => RowsWithCleanLink(freshRows, commitLog[k].url) = {}

\* What fetchUrlStatus answered in this cycle for the URL url.
AnswersFor(url) ==
    {detectorResult[k].result : k \in {n \in DOMAIN detectorResult :
                                         detectorResult[n].url = url}}

C34_DelayBetweenArchiveCalls ==
    \A a, b \in ArchiveCalls :
        a < b => archiver.log[b].time >= archiver.log[a].time + CallTime + ARCHIVE_DELAY

\* C35: a call of fetch is made no sooner after the call of fetch before it
\* than the delay between requests that holds at that moment, also when the
\* earlier one is the login made by ensureAuthenticated and the later one the
\* request that needed the token.
C35_FetchesAreDelayApart ==
    [][(client.pc \in {"login", "fetch"} /\ client.sent # 0 /\ client'.sent # client.sent)
          => client'.sent - client.sent >= client.rateLimitDelay]_vars

\* ------------------------------------------- the commit of main.js
\* String.prototype.trim of a Link cell.
trim(url) == IF url = UrlADirty THEN UrlA ELSE url

\* main.js 487-491, 498: freshRowMap.get(url), the map being filled from the
\* trimmed Link cells; a later row replaces an earlier one.
freshRowMap(list, url) ==
    LET at == {i \in DOMAIN list : list[i].url # UrlNone /\ trim(list[i].url) = url}
    IN  IF at = {} THEN NoRow
        ELSE list[CHOOSE i \in at : \A j \in at : j <= i]

\* main.js 497-541: the pending entries from place k on, over the fresh rows
\* list, nowIso being the time taken at line 477 and failed the places of
\* the entries whose save rejects; done holds the log and the counts so far.
RECURSIVE MainJsCommitFrom(_, _, _, _, _, _, _)
MainJsCommitFrom(m, k, list, start, nowIso, failed, done) ==
    IF k > Len(m) THEN done
    ELSE LET url == m[k].url
             status == m[k].status
             freshRow == freshRowMap(list, url)
             Skipped(kind) ==
                 [done EXCEPT !.log = Append(@, LogEntry(kind, url, status, freshRow)),
                              !.skippedCount = @ + 1]
             Updated ==
                 [done EXCEPT !.log = Append(@, LogEntry("saved", url, status, freshRow)),
                              !.updatedCount = @ + 1]
         IN  IF freshRow = NoRow
             THEN MainJsCommitFrom(m, k + 1, list, start, nowIso, failed, Skipped("deleted"))
             ELSE IF ModifiedSince(freshRow, start)
             THEN MainJsCommitFrom(m, k + 1, list, start, nowIso, failed, Skipped("conflict"))
             ELSE MainJsCommitFrom(m, k + 1,
                     AssignRow(list, freshRow.id, BuildUpdates(status, freshRow, nowIso)),
                     start, nowIso, failed,
                     IF k \in failed THEN Skipped("saveError") ELSE Updated)

\* main.js 473-556: batchUpdateRows(cycleStartTime) over the pending map m and
\* the fresh rows list.
MainJsBatchUpdateRows(m, list, start, nowIso, failed) ==
    MainJsCommitFrom(m, 1, list, start, nowIso, failed,
                     [log |-> <<>>, updatedCount |-> 0, skippedCount |-> 0])

\* The saves a commit made, by its log: the row, the status and the cells.
Saves(log) ==
    {<<log[k].fresh.id, log[k].status,
       DOMAIN BuildUpdates(log[k].status, log[k].fresh, 0)>> :
        k \in {n \in DOMAIN log : log[n].kind = "saved"}}

\* C36: when batchUpdateRows of services/batchUpdater.js has returned, with
\* no other process writing meanwhile, batchUpdateRows of main.js, given the
\* same pending map, the same fresh rows, the same cycleStartTime and the
\* same saves failing, would have saved the same cells with the same status
\* to the same rows, and counted as many rows updated and as many skipped.
C36_ModularCommitEqualsMainJs ==
    (pc = "known" /\ CommitReturned) =>
        LET failed == {k \in DOMAIN commitLog : commitLog[k].kind = "saveError"}
            mainJs == MainJsBatchUpdateRows(entryPending, rows, cycleStartTime,
                                            now - CallTime, failed)
        IN  /\ Saves(mainJs.log) = Saves(commitLog)
            /\ mainJs.updatedCount = updateCount
            /\ mainJs.skippedCount = skipCount

\* The rows checkKnownStreamers has added to the Livesheet in this call.
AddedRows == {i \in DOMAIN sheet : i > Len(livesheetRows)}

\* C37: the rows one call of checkKnownStreamers adds to the Livesheet hold
\* different URLs, also when a URL is listed twice in the Known Streamers
\* sheet.
C37_OneRowPerUrl ==
    pc \in {"knownLoop", "sleep"} =>
        \A i, j \in AddedRows :
            cleanUrl(sheet[i].url) = cleanUrl(sheet[j].url) => i = j

\* C38: the time kept in knownStreamersLastCheck for a URL changes only in a
\* step of checkKnownStreamers that calls fetchUrlStatus for that URL: a
\* streamer skipped for its URL, for its rate, for the cap or for being in
\* the Livesheet already leaves the map as it was.
C38_LastCheckChangesOnlyWithFetch ==
    [][\A url \in ValidUrls \cup {UrlADirty, UrlBad, UrlNone} :
          GetOr0(knownStreamersLastCheck', url) # GetOr0(knownStreamersLastCheck, url)
             => /\ pc = "knownLoop"
                /\ cleanUrl(sortedStreamers[ki].url) = url
                /\ checkedCount' = checkedCount + 1
                /\ lastResult' # "none"]_vars

C40_SaveNeverOverwritesNewerRow ==
    [][SaveStep =>
          LET freshRow == RowByUrl(freshRows, pendingUpdates[pos].url)
          IN  ~ModifiedSince(RowOf(sheet, freshRow.id), cycleStartTime)]_vars

====
